---- MODULE Spec2Model ----
(***************************************************************************)
(* Model of ImprovedAgenticWebCrawler (src/agentic_crawler.py): the        *)
(* two-phase crawl of crawl_website, the batch of concurrent _crawl_page   *)
(* tasks, the link extraction and selection that feed the frontier, and    *)
(* the site knowledge learned from extraction results.                     *)
(*                                                                         *)
(* Granularity: one action per stretch of code between two suspension      *)
(* points (await of the Fetcher, crawler.arun, or of the Oracle,           *)
(* _async_ollama_generate).  The Fetcher and the Oracle are external: what *)
(* they answer is drawn with \E from small sets.                           *)
(*                                                                         *)
(* Strings: a text (anchor text, URL path, href) is modelled by the set of *)
(* vocabulary words that occur in it as lower-case substrings, so that the *)
(* code's `keyword in text` is set membership.  Scores are kept in half    *)
(* units (the code adds 1.5), so 5.0 is 10 and the clamp [0,10] is [0,20]. *)
(***************************************************************************)
EXTENDS Integers, Sequences, FiniteSets, TLC

(***************************************************************************)
(* Bounds of the model.                                                    *)
(***************************************************************************)
MaxConcurrency == 3
MaxMaxPages == 7
\* failures of the Fetcher and of a reachable Oracle in one run
MaxFaults == 1
\* the longest list of links a method is called with
MaxLinks == 32
\* the longest synthetic link list handed to the reconnaissance selection
MaxSelect == 12
\* the largest relevance an extraction result is given in a method call
MaxRelevance == 10

(***************************************************************************)
(* Generic helpers.                                                        *)
(***************************************************************************)
Range(s) == {s[i] : i \in 1..Len(s)}

Min2(a, b) == IF a <= b THEN a ELSE b

Max2(a, b) == IF a >= b THEN a ELSE b

Take(s, n) == SubSeq(s, 1, Min2(n, Len(s)))

Drop(s, n) == SubSeq(s, Min2(n, Len(s)) + 1, Len(s))

(***************************************************************************)
(* The web site the Fetcher serves: the input of the crawl.                *)
(*   1 /            2 /blog/1     3 /blog/2     4 /about                   *)
(*   5 /account/login             6 /blog/3     7 /docs                    *)
(*   8 a page of another host                                              *)
(***************************************************************************)
Urls == 1..8

StartUrl == 1

Seg(text, isdigit, len, words) ==
    [text |-> text, isdigit |-> isdigit, len |-> len, words |-> words]

UrlHost(u) == IF u = 8 THEN "other.example" ELSE "site.example"

UrlPathParts(u) ==
    CASE u = 1 -> << >>
      [] u = 2 -> << Seg("blog", FALSE, 4, {"blog"}), Seg("1", TRUE, 1, {}) >>
      [] u = 3 -> << Seg("blog", FALSE, 4, {"blog"}), Seg("2", TRUE, 1, {}) >>
      [] u = 4 -> << Seg("about", FALSE, 5, {}) >>
      [] u = 5 -> << Seg("account", FALSE, 7, {"account"}),
                     Seg("login", FALSE, 5, {"login"}) >>
      [] u = 6 -> << Seg("blog", FALSE, 4, {"blog"}), Seg("3", TRUE, 1, {}) >>
      [] u = 7 -> << Seg("docs", FALSE, 4, {"docs"}) >>
      [] u = 9 -> << Seg("files", FALSE, 5, {}),
                     Seg("abcdefghijklmnopqrstuvwxyz01234", FALSE, 31, {}),
                     Seg("abcdefghijklmnopqrstuvwxyz0123", FALSE, 30, {}),
                     Seg("2024", TRUE, 4, {}) >>
      [] u = 10 -> << Seg("blog", FALSE, 4, {"blog"}), Seg("1", TRUE, 1, {}) >>
      [] OTHER -> << Seg("partner", FALSE, 7, {}) >>

RECURSIVE PartsWords(_)
PartsWords(parts) ==
    IF parts = << >> THEN {}
    ELSE Head(parts).words \cup PartsWords(Tail(parts))

\* the vocabulary words that occur in urlparse(url).path
UrlPathWords(u) == PartsWords(UrlPathParts(u))

Anchor(url, text, nav, main, prom) ==
    [url |-> url, anchor_text |-> text, is_navigation |-> nav,
     is_main_content |-> main, is_prominent |-> prom]

\* the <a href> elements of each page, in document order
PageAnchors(u) ==
    CASE u = 1 -> << Anchor(2, {"blog"}, FALSE, TRUE, FALSE),
                     Anchor(3, {"blog"}, FALSE, TRUE, FALSE),
                     Anchor(6, {"blog"}, FALSE, TRUE, FALSE),
                     Anchor(4, {}, TRUE, FALSE, FALSE),
                     Anchor(5, {"login", "account"}, TRUE, FALSE, FALSE),
                     Anchor(8, {}, FALSE, FALSE, FALSE) >>
      [] u = 2 -> << Anchor(6, {"blog"}, FALSE, TRUE, TRUE),
                     Anchor(7, {"docs"}, FALSE, FALSE, FALSE),
                     Anchor(1, {}, TRUE, FALSE, FALSE) >>
      [] u = 3 -> << Anchor(6, {"blog"}, FALSE, TRUE, FALSE),
                     Anchor(6, {"blog"}, FALSE, FALSE, FALSE),
                     Anchor(7, {"docs"}, TRUE, FALSE, FALSE) >>
      [] u = 4 -> << Anchor(7, {"docs"}, FALSE, TRUE, FALSE),
                     Anchor(5, {}, FALSE, TRUE, TRUE) >>
      [] u = 6 -> << Anchor(7, {"docs"}, FALSE, FALSE, FALSE),
                     Anchor(2, {"blog"}, FALSE, TRUE, FALSE) >>
      [] u = 7 -> << Anchor(5, {}, FALSE, TRUE, FALSE),
                     Anchor(4, {}, TRUE, FALSE, FALSE) >>
      [] OTHER -> << >>

\* number of sections _identify_page_sections finds on the page
PageSections(u) == IF u \in {2, 3, 6} THEN 3 ELSE 1

(***************************************************************************)
(* The objective and its analysis.                                         *)
(***************************************************************************)
\* crawl_objective.split(), lower-cased: "find blog posts"
CrawlObjectiveWords == << [w |-> "find", len |-> 4], [w |-> "blog", len |-> 4],
                          [w |-> "posts", len |-> 5] >>

\* crawl_objective_analysis as __init__ leaves it: the empty dict
EmptyAnalysis ==
    [keys |-> {}, data_types |-> << >>, key_fields |-> << >>,
     url_patterns_to_seek |-> << >>, url_patterns_to_avoid |-> << >>,
     extraction_strategy |-> ""]

\* the dict analyze_user_objective returns (and does not store) on failure
DefaultAnalysis ==
    [keys |-> {"data_types", "key_fields", "valuable_sections",
               "url_patterns_to_seek", "url_patterns_to_avoid",
               "extraction_strategy", "success_criteria"},
     data_types |-> << "general content" >>,
     key_fields |-> << "title", "content", "links" >>,
     url_patterns_to_seek |-> << >>,
     url_patterns_to_avoid |-> << "login", "signup", "cart" >>,
     extraction_strategy |-> "Extract all available content"]

\* JSON objects the Oracle may answer to the objective-analysis prompt
ObjectiveReplies ==
    { [keys |-> {"data_types", "key_fields", "url_patterns_to_seek",
                 "url_patterns_to_avoid"},
       data_types |-> << "posts" >>,
       key_fields |-> << "title" >>,
       url_patterns_to_seek |-> << "blog" >>,
       url_patterns_to_avoid |-> << "login" >>,
       extraction_strategy |-> ""] }

\* what a failed objective-analysis call leaves of the reply: nothing (the
\* call raised), or a text that json.loads rejects and in which a lenient
\* reader would still find these fields
FailedObjectiveReplies ==
    { EmptyAnalysis,
      [keys |-> {"data_types", "url_patterns_to_avoid"},
       data_types |-> << "posts" >>,
       key_fields |-> << >>,
       url_patterns_to_seek |-> << >>,
       url_patterns_to_avoid |-> << "account" >>,
       extraction_strategy |-> ""] }

\* an except branch that keeps the fields found in the reply
analysis_on_failure_merged(reply) ==
    [DefaultAnalysis EXCEPT
        !.data_types = IF "data_types" \in reply.keys
                       THEN reply.data_types ELSE @,
        !.url_patterns_to_avoid = IF "url_patterns_to_avoid" \in reply.keys
                                  THEN reply.url_patterns_to_avoid ELSE @]

\* the dict the except branch of analyze_user_objective returns
analysis_on_failure(reply) == DefaultAnalysis

\* the patterns _extract_links_with_context appends on every call
FixedAvoidPatterns ==
    << "javascript:", "mailto:", "tel:", "#", ".jpg", ".png", ".pdf",
       ".css", ".js" >>

(***************************************************************************)
(* URL helpers.                                                            *)
(***************************************************************************)
is_same_domain(base_domain, u) ==
    /\ base_domain # ""
    /\ UrlHost(u) = base_domain

RECURSIVE PatternParts(_)
PatternParts(parts) ==
    IF parts = << >> THEN << >>
    ELSE LET part == Head(parts)
         IN  << IF part.isdigit \/ part.len > 30 THEN "*" ELSE part.text >>
             \o PatternParts(Tail(parts))

\* a derivation that replaces numeric segments only
extract_url_pattern_digits_only(u) ==
    [i \in 1..Len(UrlPathParts(u)) |->
        IF UrlPathParts(u)[i].isdigit THEN "*" ELSE UrlPathParts(u)[i].text]

\* the generalized pattern of a URL: its path segments with numeric and
\* long ones replaced by "*"  (<< >> is "/")
extract_url_pattern(u) == PatternParts(UrlPathParts(u))

(***************************************************************************)
(* Heuristic link scoring of the reconnaissance phase, in half units.      *)
(***************************************************************************)
low_value_keywords_without_login ==
    << "privacy", "policy", "terms", "cookie", "signin", "signup",
       "register", "cart", "checkout", "account", "subscribe", "newsletter" >>

low_value_keywords ==
    << "privacy", "policy", "terms", "cookie", "login", "signin", "signup",
       "register", "cart", "checkout", "account", "subscribe", "newsletter" >>

RECURSIVE SumOver(_, _)
\* sum of f[i] over the positions of a sequence of length n
SumOver(f, n) == IF n = 0 THEN 0 ELSE f[n] + SumOver(f, n - 1)

Clamp(lo, hi, x) == Max2(lo, Min2(hi, x))

\* the score before the final clamp
heuristic_score_sum(link, analysis, data_types) ==
    LET link_text == link.anchor_text
        url_path == UrlPathWords(link.url)
        low == [i \in 1..Len(low_value_keywords) |->
                  IF low_value_keywords[i] \in link_text
                     \/ low_value_keywords[i] \in url_path
                  THEN -6 ELSE 0]
        objective_keywords ==
            SelectSeq(CrawlObjectiveWords, LAMBDA x : x.len > 3)
        obj == [i \in 1..Len(objective_keywords) |->
                  (IF objective_keywords[i].w \in link_text THEN 4 ELSE 0)
                  + (IF objective_keywords[i].w \in url_path THEN 3 ELSE 0)]
        dts == [i \in 1..Len(data_types) |->
                  IF data_types[i] \in link_text \/ data_types[i] \in url_path
                  THEN 4 ELSE 0]
        seek_patterns == analysis.url_patterns_to_seek
        seek == [i \in 1..Len(seek_patterns) |->
                  IF seek_patterns[i] \in url_path
                     \/ seek_patterns[i] \in link_text
                  THEN 6 ELSE 0]
        score == 10
                 + SumOver(low, Len(low_value_keywords))
                 + (IF link.is_main_content THEN 4 ELSE 0)
                 + (IF link.is_prominent THEN 3 ELSE 0)
                 - (IF link.is_navigation THEN 2 ELSE 0)
                 + SumOver(obj, Len(objective_keywords))
                 + SumOver(dts, Len(data_types))
                 + SumOver(seek, Len(seek_patterns))
    IN  score

score_link_relevance_heuristic_unclamped(link, analysis, data_types) ==
    heuristic_score_sum(link, analysis, data_types)

score_link_relevance_heuristic(link, analysis, data_types) ==
    Clamp(0, 20, heuristic_score_sum(link, analysis, data_types))

RECURSIVE InsertDesc(_, _)
\* insert x behind every element whose score is >= the score of x
InsertDesc(sorted, x) ==
    IF sorted = << >> THEN << x >>
    ELSE IF Head(sorted).score >= x.score
         THEN << Head(sorted) >> \o InsertDesc(Tail(sorted), x)
         ELSE << x >> \o sorted

RECURSIVE SortDesc(_)
\* list.sort(key=score, reverse=True): descending and stable
SortDesc(s) ==
    IF s = << >> THEN << >>
    ELSE InsertDesc(SortDesc(SubSeq(s, 1, Len(s) - 1)), s[Len(s)])

\* pattern_counts[pattern] of the selection made so far
PatternCount(selected, p) ==
    Cardinality({i \in 1..Len(selected) : extract_url_pattern(selected[i].url) = p})

RECURSIVE SelectWalk(_, _, _)
\* the selection loop of _select_best_links_for_recon over the sorted
\* (score, link) pairs
SelectWalk(scored_links, selected, count) ==
    IF scored_links = << >> \/ Len(selected) >= count THEN selected
    ELSE LET score == Head(scored_links).score
             link == Head(scored_links).link
         IN  IF score < 6
             THEN SelectWalk(Tail(scored_links), selected, count)
             ELSE IF PatternCount(selected, extract_url_pattern(link.url)) >= 2
             THEN SelectWalk(Tail(scored_links), selected, count)
             ELSE SelectWalk(Tail(scored_links), Append(selected, link), count)

\* the count best-scored links, whatever their score and pattern
select_best_links_for_recon_top_only(links, count, analysis, data_types) ==
    LET scored_links ==
            SortDesc([i \in 1..Len(links) |->
               [score |-> score_link_relevance_heuristic(links[i], analysis,
                                                         data_types),
                link |-> links[i]]])
    IN  Take([i \in 1..Len(scored_links) |-> scored_links[i].link], count)

select_best_links_for_recon(links, count, analysis, data_types) ==
    LET scored_links ==
            [i \in 1..Len(links) |->
               [score |-> score_link_relevance_heuristic(links[i], analysis,
                                                         data_types),
                link |-> links[i]]]
    IN  IF links = << >> THEN << >>
        ELSE SelectWalk(SortDesc(scored_links), << >>, count)

(***************************************************************************)
(* Link extraction.                                                        *)
(***************************************************************************)
\* the vocabulary words that occur in the href of an anchor
HrefWords(u) == UrlPathWords(u)

\* the links _extract_links_with_context keeps, given the avoid list
extract_links_with_context(page, base_domain, visited, avoid_patterns) ==
    SelectSeq(PageAnchors(page),
              LAMBDA a : /\ Range(avoid_patterns) \cap HrefWords(a.url) = {}
                         /\ is_same_domain(base_domain, a.url)
                         /\ a.url \notin visited)

\* the avoid list the call reads: the stored list extended in place, or a
\* fresh list when the analysis has no "url_patterns_to_avoid" key
AvoidPatternsAfterExtend(analysis) ==
    analysis.url_patterns_to_avoid \o FixedAvoidPatterns

ExtendAvoid(analysis) ==
    IF "url_patterns_to_avoid" \in analysis.keys
    THEN [analysis EXCEPT !.url_patterns_to_avoid = @ \o FixedAvoidPatterns]
    ELSE analysis

(***************************************************************************)
(* Frontier helpers.                                                       *)
(***************************************************************************)
\* an enqueue that does not look at the queue
EnqueueUnchecked(queue, visited, url) ==
    IF url \notin visited THEN Append(queue, url) ELSE queue

\* `if url not in self.visited_urls and url not in url_queue: append`
Enqueue(queue, visited, url) ==
    IF url \notin visited /\ url \notin Range(queue)
    THEN Append(queue, url) ELSE queue

RECURSIVE EnqueueAll(_, _, _)
EnqueueAll(queue, visited, urls) ==
    IF urls = << >> THEN queue
    ELSE EnqueueAll(Enqueue(queue, visited, Head(urls)), visited, Tail(urls))

RECURSIVE Dedupe(_)
\* list(dict.fromkeys(q)): first occurrences, in order
Dedupe(q) ==
    IF q = << >> THEN << >>
    ELSE LET d == Dedupe(SubSeq(q, 1, Len(q) - 1))
         IN  IF q[Len(q)] \in Range(d) THEN d ELSE Append(d, q[Len(q)])

RECURSIVE PopBatch(_, _, _)
\* the pop loop of a crawl iteration: n pops, keeping the unvisited URLs
PopBatch(queue, visited, n) ==
    IF n <= 0 \/ queue = << >> THEN [batch |-> << >>, queue |-> queue]
    ELSE LET r == PopBatch(Tail(queue), visited, n - 1)
         IN  [batch |-> IF Head(queue) \notin visited
                        THEN << Head(queue) >> \o r.batch ELSE r.batch,
              queue |-> r.queue]

RECURSIVE DispatchUrls(_, _)
\* _crawl_pages_batch: the URLs that get a task, each marked visited first
DispatchUrls(urls, visited) ==
    IF urls = << >> THEN << >>
    ELSE IF Head(urls) \in visited
         THEN DispatchUrls(Tail(urls), visited)
         ELSE << Head(urls) >>
              \o DispatchUrls(Tail(urls), visited \cup {Head(urls)})

(***************************************************************************)
(* What the Fetcher and the Oracle may answer.                             *)
(***************************************************************************)
\* crawler.arun: a result with success (with html, or with html None), a
\* result without success, or an exception
FetchOutcomes == {"ok", "no_html", "fail", "raise"}

PageTypes == {"article", "listing", "unknown"}

\* JSON objects the Oracle may answer to the whole-page extraction prompt
WholePageReplies ==
    { [page_type |-> "listing", relevance_score |-> 3],
      [page_type |-> "article", relevance_score |-> 8] }

\* JSON objects the Oracle may answer to the section extraction prompt:
\* page_type and the relevance_score of each entry of sections_analysis
SectionReplies ==
    { [page_type |-> "article", section_scores |-> << 2, 8, 5 >>] }

\* JSON objects the Oracle may answer to the structure-analysis prompt; keys
\* are the keys of the object
StructureReplies ==
    { [keys |-> {"site_type", "most_valuable_page_types", "recommended_focus",
                 "high_priority_patterns", "strategy"},
       site_type |-> "blog", recommended_focus |-> "posts",
       high_priority_patterns |-> << << "docs" >> >>,
       high_value_url_patterns |-> << >>,
       strategy |-> "continue_deep"],
      [keys |-> {"site_type", "high_value_url_patterns", "strategy"},
       site_type |-> "shop", recommended_focus |-> "",
       high_priority_patterns |-> << >>,
       high_value_url_patterns |-> << << "about" >> >>,
       strategy |-> "site_not_suitable"] }

\* a comma-separated piece of an answer to the navigation prompt: the
\* matches of \d+ in it, and whether its upper-cased text contains NONE
Tok(text, numbers, has_none) ==
    [text |-> text, numbers |-> numbers, has_none |-> has_none]

Num(n) == Tok("number", << n >>, FALSE)

\* the answer "2,5,NONE-ish-garbage,1"
AnswerWithGarbage ==
    << Num(2), Num(5), Tok("NONE-ish-garbage", << >>, TRUE), Num(1) >>

\* answers of the Oracle to the navigation prompt
NavigationAnswers ==
    { << Tok("NONE", << >>, TRUE) >>,
      << Num(1) >>,
      << Num(2), Num(1), Num(1) >>,
      << Num(99), Num(0) >>,
      AnswerWithGarbage,
      << Tok("link 3 and 4", << 3, 4 >>, FALSE), Tok("maybe", << >>, FALSE) >>,
      << Num(1), Num(2), Num(3), Num(4), Num(5), Num(6), Num(7) >>,
      << Num(13), Num(12), Num(0), Num(11), Num(31), Num(2), Num(3),
         Num(4) >>,
      << Num(99), Num(98), Num(97), Num(96), Num(95), Num(1) >> }

RECURSIVE answer_numbers(_)
\* re.findall(r'\d+', answer), as integers
answer_numbers(answer) ==
    IF answer = << >> THEN << >>
    ELSE Head(answer).numbers \o answer_numbers(Tail(answer))

\* what _ask_ollama_for_navigation_advanced reads of an answer: whether its
\* upper-cased text contains NONE, and its integer tokens
parse_navigation_answer(answer) ==
    [has_none |-> \E i \in 1..Len(answer) : answer[i].has_none,
     numbers |-> answer_numbers(answer)]

NavigationReplies ==
    { parse_navigation_answer(answer) : answer \in NavigationAnswers }

(***************************************************************************)
(* State.                                                                  *)
(***************************************************************************)
VARIABLES
    max_pages,                \* self.max_pages
    concurrency,              \* self.concurrency
    start_scheme,             \* the scheme of the start URL
    oracle_up,                \* FALSE: the Oracle is unreachable, every call fails
    faults,                   \* failures of the Fetcher and the Oracle so far
    base_domain,              \* self.base_domain ("" is None)
    crawl_objective_analysis, \* self.crawl_objective_analysis
    desired_data_types,       \* self.desired_data_types
    pc,                       \* where main / crawl_website is suspended
    visited_urls,             \* self.visited_urls
    url_queue,                \* url_queue of crawl_website: the frontier
    scraped_data,             \* self.scraped_data: the visited-pages log
    tasks,                    \* the tasks of the gather in flight
    batch_results,            \* batch_results still to be processed
    seed_pages,               \* high_value_pages not yet seeded from
    nav,                      \* scored_links / top_candidates of the
                              \* navigation call in flight
    page_relevance_scores,    \* self.page_relevance_scores (-1: no entry)
    high_value_pages,         \* self.high_value_pages
    site_understanding,       \* self.site_understanding
    analysis_runs,            \* calls of _analyze_site_structure so far
    fetch_calls,              \* calls of crawler.arun so far, per URL
    dispatched,               \* history: tasks created so far, per URL
    task_failure,             \* history: how the task of a URL failed, if it
                              \* did ("fetch": it returned None, "oracle":
                              \* it returned the fallback extraction)
    objective_result,         \* what analyze_user_objective returned (a
                              \* sequence of one dict; empty before)
    fn_call,                  \* a method called on its own: its name and
                              \* its arguments
    fn_result                 \* the value that call returned

config == << max_pages, concurrency, start_scheme, oracle_up >>

objective == << crawl_objective_analysis, desired_data_types >>

site_knowledge == << page_relevance_scores, high_value_pages, site_understanding >>

vars == << max_pages, concurrency, start_scheme, oracle_up, faults, base_domain,
           crawl_objective_analysis, desired_data_types, pc, visited_urls,
           url_queue, scraped_data, tasks, batch_results, seed_pages, nav,
           page_relevance_scores, high_value_pages, site_understanding,
           analysis_runs, fetch_calls, dispatched, task_failure,
           objective_result, fn_call, fn_result >>

\* a method called on its own, outside a crawl
unit == << fn_call, fn_result >>

NoCall == [op |-> "none"]

\* the values the calls of main have returned
results == << objective_result >>

history == << dispatched, task_failure >>

NoScore == 0 - 1

\* the configurations tried: every max_pages and concurrency of the bounds
\* with an http(s) start URL and a reachable Oracle, one configuration with
\* another scheme, and the largest max_pages with an unreachable Oracle
Configurations ==
    { c \in [max_pages : (0 - 1)..MaxMaxPages,
             concurrency : 0..MaxConcurrency,
             start_scheme : {"https", "ftp"},
             oracle_up : BOOLEAN] :
        /\ c.start_scheme = "ftp" =>
              (c.max_pages = 0 /\ c.concurrency = 1 /\ c.oracle_up)
        /\ ~c.oracle_up => c.max_pages = MaxMaxPages }

\* the environment's part of a step: a call that answers, a Fetcher call
\* that fails, an Oracle call that fails
Answers == faults' = faults

FetcherFails == faults < MaxFaults /\ faults' = faults + 1

OracleFails == IF oracle_up THEN FetcherFails ELSE Answers

Init ==
    /\ \E c \in Configurations :
         /\ max_pages = c.max_pages
         /\ concurrency = c.concurrency
         /\ start_scheme = c.start_scheme
         /\ oracle_up = c.oracle_up
    /\ faults = 0
    /\ base_domain = ""
    /\ crawl_objective_analysis = EmptyAnalysis
    /\ desired_data_types = << >>
    /\ pc = "init"
    /\ visited_urls = {}
    /\ url_queue = << >>
    /\ scraped_data = << >>
    /\ tasks = << >>
    /\ batch_results = << >>
    /\ seed_pages = << >>
    /\ nav = << >>
    /\ page_relevance_scores = [u \in Urls |-> NoScore]
    /\ high_value_pages = << >>
    /\ site_understanding =
         [keys |-> {"site_type", "main_sections", "content_patterns",
                    "high_value_url_patterns", "recommended_focus"},
          site_type |-> "",
          content_patterns |-> [t \in PageTypes |-> << >>],
          high_value_url_patterns |-> << >>,
          high_priority_patterns |-> << >>,
          recommended_focus |-> "",
          strategy |-> "",
          patterns_aliased |-> FALSE]
    /\ analysis_runs = 0
    /\ fetch_calls = [u \in Urls |-> 0]
    /\ dispatched = [u \in Urls |-> 0]
    /\ task_failure = [u \in Urls |-> "none"]
    /\ objective_result = << >>
    /\ fn_call = NoCall
    /\ fn_result = << >>

(***************************************************************************)
(* Site knowledge.                                                         *)
(***************************************************************************)
\* list.append on high_value_url_patterns; after the fallback of
\* _analyze_site_structure the key high_priority_patterns holds the same
\* list object, so the append shows under both keys
AppendPattern(su, pattern) ==
    [su EXCEPT !.high_value_url_patterns = Append(@, pattern),
               !.high_priority_patterns =
                   IF su.patterns_aliased THEN Append(@, pattern) ELSE @]

\* an update that records the relevance of high-value pages only
update_site_knowledge_high_only(prs, hvp, su, url, relevance, page_type) ==
    IF relevance >= 6
    THEN [prs |-> [prs EXCEPT ![url] = relevance],
          hvp |-> Append(hvp, url),
          su |-> su]
    ELSE [prs |-> prs, hvp |-> hvp, su |-> su]

\* _update_site_knowledge on (page_relevance_scores, high_value_pages,
\* site_understanding)
update_site_knowledge(prs, hvp, su, url, relevance, page_type) ==
    IF relevance >= 6
    THEN LET url_pattern == extract_url_pattern(url)
             su1 == IF url_pattern \notin Range(su.high_value_url_patterns)
                    THEN AppendPattern(su, url_pattern) ELSE su
         IN  [prs |-> [prs EXCEPT ![url] = relevance],
              hvp |-> Append(hvp, url),
              su |-> [su1 EXCEPT !.content_patterns[page_type] =
                          Append(@, [url |-> url, pattern |-> url_pattern,
                                     relevance |-> relevance])]]
    ELSE [prs |-> [prs EXCEPT ![url] = relevance], hvp |-> hvp, su |-> su]

\* a fallback that gives the crawl up
StructureFallbackStop(su) ==
    [keys |-> {"site_type", "strategy"},
     site_type |-> "unknown",
     recommended_focus |-> "",
     high_priority_patterns |-> << >>,
     high_value_url_patterns |-> << >>,
     strategy |-> "site_not_suitable"]

\* the dict _analyze_site_structure returns when the Oracle call or the
\* parse of its answer fails
StructureFallback(su) ==
    [keys |-> {"site_type", "most_valuable_page_types", "recommended_focus",
               "high_priority_patterns", "strategy"},
     site_type |-> "unknown",
     recommended_focus |-> "Continue crawling all page types",
     high_priority_patterns |-> su.high_value_url_patterns,
     high_value_url_patterns |-> << >>,
     strategy |-> "continue_deep"]

\* self.site_understanding.update(site_analysis)
SiteUnderstandingUpdate(su, doc, aliased) ==
    [keys |-> su.keys \cup doc.keys,
     site_type |-> IF "site_type" \in doc.keys
                   THEN doc.site_type ELSE su.site_type,
     content_patterns |-> su.content_patterns,
     high_value_url_patterns |->
         IF "high_value_url_patterns" \in doc.keys
         THEN doc.high_value_url_patterns ELSE su.high_value_url_patterns,
     high_priority_patterns |->
         IF "high_priority_patterns" \in doc.keys
         THEN doc.high_priority_patterns ELSE su.high_priority_patterns,
     recommended_focus |-> IF "recommended_focus" \in doc.keys
                           THEN doc.recommended_focus ELSE su.recommended_focus,
     strategy |-> IF "strategy" \in doc.keys THEN doc.strategy ELSE su.strategy,
     patterns_aliased |-> aliased]

(***************************************************************************)
(* main: the objective analysis, then crawl_website.                       *)
(***************************************************************************)
\* analyze_user_objective returns: the parsed answer is stored, the default
\* of the except branch is only returned
AnalyzeObjective ==
    /\ pc = "init"
    /\ \/ \E r \in ObjectiveReplies :
            /\ oracle_up /\ Answers
            /\ crawl_objective_analysis' = r
            /\ desired_data_types' =
                 IF "data_types" \in r.keys THEN r.data_types ELSE << >>
            /\ objective_result' = << r >>
       \/ \E r \in FailedObjectiveReplies :
            /\ OracleFails
            /\ objective_result' = << analysis_on_failure(r) >>
            /\ UNCHANGED objective
    /\ pc' = "start"
    /\ UNCHANGED << history, config, unit, base_domain, visited_urls, url_queue, scraped_data,
                    tasks, batch_results, seed_pages, nav, site_knowledge,
                    analysis_runs, fetch_calls >>

\* crawl_website up to the entry of the first crawler context
StartCrawl ==
    /\ pc = "start"
    /\ base_domain' = UrlHost(StartUrl)
    /\ url_queue' = << StartUrl >>
    /\ pc' = "recon"
    /\ UNCHANGED << history, config, results, unit, faults, objective, visited_urls, scraped_data, tasks,
                    batch_results, seed_pages, nav, site_knowledge,
                    analysis_runs, fetch_calls >>

recon_budget == Max2(5, max_pages \div 10)

recon_batch_size == concurrency

deep_batch_size == Max2(2, concurrency \div 2)

seed_batch_size == Min2(concurrency * 2, 5)

\* a batch size that ignores the remaining budget
current_batch_size_unbudgeted(batch_size, budget) ==
    Min2(batch_size, Len(url_queue))

\* current_batch_size = min(batch_size, remaining_budget, len(url_queue))
current_batch_size(batch_size, budget) ==
    Min2(batch_size, Min2(budget - Cardinality(visited_urls), Len(url_queue)))

NewTasks(urls, st) ==
    [i \in 1..Len(urls) |->
        [url |-> urls[i], st |-> st, result |-> << >>,
         sections_failed |-> FALSE]]

\* a batch whose URLs are not marked visited
MarkVisitedForgotten(visited, urls) == visited

\* self.visited_urls.add(url) for the URLs that get a task
MarkVisited(visited, urls) == visited \cup Range(urls)

CountFetches(calls, urls) ==
    [u \in Urls |-> calls[u] + Cardinality({i \in 1..Len(urls) : urls[i] = u})]

\* a pass that takes its batch from the end of the queue
LoopIterationFromEnd(batch_size, budget, loop_pc, batch_pc) ==
    LET n == Max2(0, current_batch_size(batch_size, budget))
        kept == Take(url_queue, Len(url_queue) - Min2(n, Len(url_queue)))
        batch == SelectSeq(Drop(url_queue, Len(kept)),
                           LAMBDA u : u \notin visited_urls)
        urls == DispatchUrls(batch, visited_urls)
    IN  /\ url_queue' = kept
        /\ IF batch = << >>
           THEN /\ pc' = loop_pc
                /\ UNCHANGED << visited_urls, tasks, fetch_calls, dispatched >>
           ELSE /\ visited_urls' = MarkVisited(visited_urls, urls)
                /\ tasks' = NewTasks(urls, "fetch")
                /\ fetch_calls' = CountFetches(fetch_calls, urls)
                /\ dispatched' = CountFetches(dispatched, urls)
                /\ pc' = batch_pc

\* one pass through the head of a crawl loop, up to the gather of
\* _crawl_pages_batch; loop_pc is the loop head, batch_pc the gather
LoopIteration(batch_size, budget, loop_pc, batch_pc) ==
    LET popped == PopBatch(url_queue, visited_urls,
                           current_batch_size(batch_size, budget))
        urls == DispatchUrls(popped.batch, visited_urls)
    IN  /\ url_queue' = popped.queue
        /\ IF popped.batch = << >>
           THEN /\ pc' = loop_pc
                /\ UNCHANGED << visited_urls, tasks, fetch_calls, dispatched >>
           ELSE /\ visited_urls' = MarkVisited(visited_urls, urls)
                /\ tasks' = NewTasks(urls, "fetch")
                /\ fetch_calls' = CountFetches(fetch_calls, urls)
                /\ dispatched' = CountFetches(dispatched, urls)
                /\ pc' = batch_pc

\* the reconnaissance loop: its next batch, or its end and the call of
\* _analyze_site_structure
ReconIterate ==
    /\ pc = "recon"
    /\ IF url_queue # << >> /\ Cardinality(visited_urls) < recon_budget
       THEN /\ LoopIteration(recon_batch_size, recon_budget,
                             "recon", "recon_batch")
            /\ UNCHANGED analysis_runs
       ELSE /\ pc' = "analysis"
            /\ analysis_runs' = analysis_runs + 1
            /\ UNCHANGED << visited_urls, url_queue, tasks, fetch_calls,
                            dispatched >>
    /\ UNCHANGED << task_failure, config, results, unit, faults, base_domain, objective, scraped_data,
                    batch_results, seed_pages, nav, site_knowledge >>

(***************************************************************************)
(* The tasks of a batch: _crawl_page run under asyncio.gather.             *)
(***************************************************************************)
PageData(url, relevance, page_type) ==
    [url |-> url, relevance_score |-> relevance, page_type |-> page_type]

\* a fallback extraction that scores the page 0
FallbackExtractionZero(url) == PageData(url, 0, "unknown")

\* the extraction of the except branch of _extract_content_whole_page
FallbackExtraction(url) == PageData(url, 5, "unknown")

RECURSIVE MaxOf(_)
\* max(section_scores) if section_scores else 0
MaxOf(scores) ==
    IF scores = << >> THEN 0
    ELSE IF Len(scores) = 1 THEN scores[1]
    ELSE Max2(Head(scores), MaxOf(Tail(scores)))

InBatch == pc \in {"recon_batch", "deep_batch"}

\* the tasks that have been started and have not returned
InFlight == {i \in 1..Len(tasks) : tasks[i].st # "done"}

TaskDone(i, result) ==
    tasks' = [tasks EXCEPT ![i].st = "done", ![i].result = result]

\* the Fetcher answers a task: without a usable page the task returns None,
\* otherwise _extract_content_with_ai sends its first prompt
TaskFetchReturn(i) ==
    /\ InBatch
    /\ i \in 1..Len(tasks)
    /\ tasks[i].st = "fetch"
    /\ \E outcome \in FetchOutcomes :
         IF outcome = "ok"
         THEN /\ Answers
              /\ tasks' = [tasks EXCEPT ![i].st =
                              IF PageSections(tasks[i].url) >= 2
                              THEN "sections" ELSE "whole"]
              /\ UNCHANGED task_failure
         ELSE /\ FetcherFails
              /\ TaskDone(i, << >>)
              /\ task_failure' = [task_failure EXCEPT ![tasks[i].url] = "fetch"]
    /\ UNCHANGED << dispatched, config, results, unit, base_domain, objective, pc, visited_urls,
                    url_queue, scraped_data, batch_results, seed_pages, nav,
                    site_knowledge, analysis_runs, fetch_calls >>

\* the task's own update of the site knowledge and its page_data
TaskExtracted(i, relevance, page_type) ==
    LET url == tasks[i].url
        k == update_site_knowledge(page_relevance_scores, high_value_pages,
                                   site_understanding, url, relevance,
                                   page_type)
    IN  /\ page_relevance_scores' = k.prs
        /\ high_value_pages' = k.hvp
        /\ site_understanding' = k.su
        /\ TaskDone(i, << PageData(url, relevance, page_type) >>)

\* a section extraction whose failure gives the fallback extraction at once
TaskSectionsReturnNoRetry(i) ==
    /\ InBatch
    /\ i \in 1..Len(tasks)
    /\ tasks[i].st = "sections"
    /\ \/ \E r \in SectionReplies :
            /\ oracle_up /\ Answers
            /\ TaskExtracted(i, MaxOf(r.section_scores), r.page_type)
       \/ /\ OracleFails
          /\ tasks' = [tasks EXCEPT ![i].st = "done",
                                    ![i].result =
                                        << FallbackExtraction(tasks[i].url) >>,
                                    ![i].sections_failed = TRUE]
          /\ UNCHANGED site_knowledge
    /\ UNCHANGED << history, config, results, unit, base_domain, objective, pc, visited_urls,
                    url_queue, scraped_data, batch_results, seed_pages, nav,
                    analysis_runs, fetch_calls >>

\* the Oracle answers the section prompt of _extract_content_by_sections,
\* or fails and the task goes on to _extract_content_whole_page
TaskSectionsReturn(i) ==
    /\ InBatch
    /\ i \in 1..Len(tasks)
    /\ tasks[i].st = "sections"
    /\ \/ \E r \in SectionReplies :
            /\ oracle_up /\ Answers
            /\ TaskExtracted(i, MaxOf(r.section_scores), r.page_type)
       \/ /\ OracleFails
          /\ tasks' = [tasks EXCEPT ![i].st = "whole",
                                    ![i].sections_failed = TRUE]
          /\ UNCHANGED site_knowledge
    /\ UNCHANGED << history, config, results, unit, base_domain, objective, pc, visited_urls,
                    url_queue, scraped_data, batch_results, seed_pages, nav,
                    analysis_runs, fetch_calls >>

\* the Oracle answers the prompt of _extract_content_whole_page, or fails
\* and the task returns the fallback extraction
TaskWholeReturn(i) ==
    /\ InBatch
    /\ i \in 1..Len(tasks)
    /\ tasks[i].st = "whole"
    /\ \/ \E r \in WholePageReplies :
            /\ oracle_up /\ Answers
            /\ TaskExtracted(i, r.relevance_score, r.page_type)
            /\ UNCHANGED task_failure
       \/ /\ OracleFails
          /\ TaskDone(i, << FallbackExtraction(tasks[i].url) >>)
          /\ task_failure' = [task_failure EXCEPT ![tasks[i].url] = "oracle"]
          /\ UNCHANGED site_knowledge
    /\ UNCHANGED << dispatched, config, results, unit, base_domain, objective, pc, visited_urls,
                    url_queue, scraped_data, batch_results, seed_pages, nav,
                    analysis_runs, fetch_calls >>

RECURSIVE ValidResults(_)
\* the results of the gather in task order, None dropped
ValidResults(ts) ==
    IF ts = << >> THEN << >>
    ELSE Head(ts).result \o ValidResults(Tail(ts))

\* the gather of _crawl_pages_batch returns
BatchResolved ==
    /\ InBatch
    /\ InFlight = {}
    /\ batch_results' = ValidResults(tasks)
    /\ tasks' = << >>
    /\ pc' = IF pc = "recon_batch" THEN "recon_links" ELSE "deep_links"
    /\ UNCHANGED << history, config, results, unit, faults, base_domain, objective, visited_urls,
                    url_queue, scraped_data, seed_pages, nav, site_knowledge,
                    analysis_runs, fetch_calls >>

(***************************************************************************)
(* Processing the results of a batch: the follow-up fetch of each page.    *)
(***************************************************************************)
\* next page_data of batch_results: logged, then fetched again for links
ProcessResult(loop_pc, follow_pc) ==
    IF batch_results = << >>
    THEN /\ pc' = loop_pc
         /\ UNCHANGED << scraped_data, fetch_calls >>
    ELSE /\ scraped_data' = Append(scraped_data, Head(batch_results))
         /\ fetch_calls' = CountFetches(fetch_calls,
                                        << Head(batch_results).url >>)
         /\ pc' = follow_pc

ReconLinks ==
    /\ pc = "recon_links"
    /\ ProcessResult("recon", "recon_follow")
    /\ UNCHANGED << history, config, results, unit, faults, base_domain, objective, visited_urls,
                    url_queue, tasks, batch_results, seed_pages, nav,
                    site_knowledge, analysis_runs >>

LinkUrls(links) == [i \in 1..Len(links) |-> links[i].url]

\* the links of a page as the current call of _extract_links_with_context
\* returns them
PageLinks(page) ==
    extract_links_with_context(page, base_domain, visited_urls,
        AvoidPatternsAfterExtend(crawl_objective_analysis))

\* the follow-up fetch of the reconnaissance loop returns
ReconFollowReturn ==
    /\ pc = "recon_follow"
    /\ \E outcome \in FetchOutcomes :
         CASE outcome = "ok" ->
                LET page == Head(batch_results).url
                    links == PageLinks(page)
                    analysis == ExtendAvoid(crawl_objective_analysis)
                    selected == select_best_links_for_recon(links, 8,
                                    analysis, desired_data_types)
                IN  /\ Answers
                    /\ crawl_objective_analysis' = analysis
                    /\ url_queue' = EnqueueAll(url_queue, visited_urls,
                                               LinkUrls(selected))
                    /\ batch_results' = Tail(batch_results)
                    /\ pc' = "recon_links"
           [] outcome = "fail" ->
                /\ FetcherFails
                /\ batch_results' = Tail(batch_results)
                /\ pc' = "recon_links"
                /\ UNCHANGED << crawl_objective_analysis, url_queue >>
           [] OTHER ->
                /\ FetcherFails
                /\ pc' = "aborted"
                /\ UNCHANGED << crawl_objective_analysis, url_queue,
                                batch_results >>
    /\ UNCHANGED << history, config, results, unit, base_domain, desired_data_types, visited_urls,
                    scraped_data, tasks, seed_pages, nav, site_knowledge,
                    analysis_runs, fetch_calls >>

(***************************************************************************)
(* Structure analysis and the seeding of the deep-crawl frontier.          *)
(***************************************************************************)
\* the Oracle answers _analyze_site_structure, or fails; the returned dict
\* is merged into site_understanding
AnalysisReturn ==
    /\ pc = "analysis"
    /\ \/ \E r \in StructureReplies :
            /\ oracle_up /\ Answers
            /\ site_understanding' =
                 SiteUnderstandingUpdate(site_understanding, r,
                     /\ site_understanding.patterns_aliased
                     /\ "high_value_url_patterns" \notin r.keys
                     /\ "high_priority_patterns" \notin r.keys)
       \/ /\ OracleFails
          /\ site_understanding' =
               SiteUnderstandingUpdate(site_understanding,
                   StructureFallback(site_understanding), TRUE)
    /\ pc' = "seed"
    /\ UNCHANGED << history, config, results, unit, faults, base_domain, objective, visited_urls,
                    url_queue, scraped_data, tasks, batch_results, seed_pages,
                    nav, page_relevance_scores, high_value_pages,
                    analysis_runs, fetch_calls >>

\* [page for page in self.scraped_data if relevance_score >= 5], as URLs
SeedSources ==
    LinkUrls(SelectSeq(scraped_data, LAMBDA page : page.relevance_score >= 5))

\* the next gather of extract_links_from_page tasks, or, when no source is
\* left, the de-duplication of the seeded queue
SeedNext(queue, sources) ==
    IF sources = << >>
    THEN /\ url_queue' = Dedupe(queue)
         /\ tasks' = << >>
         /\ seed_pages' = << >>
         /\ pc' = "deep"
         /\ UNCHANGED fetch_calls
    ELSE /\ url_queue' = queue
         /\ tasks' = NewTasks(Take(sources, seed_batch_size), "seedfetch")
         /\ seed_pages' = Drop(sources, seed_batch_size)
         /\ fetch_calls' = CountFetches(fetch_calls,
                                        Take(sources, seed_batch_size))
         /\ pc' = "seed_batch"

\* the second crawler context is entered: the queue is reset and seeding
\* starts (range() with step 0 raises)
SeedStart ==
    /\ pc = "seed"
    /\ IF seed_batch_size = 0
       THEN /\ pc' = "aborted"
            /\ url_queue' = << >>
            /\ UNCHANGED << tasks, seed_pages, fetch_calls >>
       ELSE SeedNext(<< >>, SeedSources)
    /\ UNCHANGED << history, config, results, unit, faults, base_domain, objective, visited_urls,
                    scraped_data, batch_results, nav, site_knowledge,
                    analysis_runs >>

\* the Fetcher answers an extract_links_from_page task; every failure is
\* caught and gives no links
SeedTaskReturn(i) ==
    /\ pc = "seed_batch"
    /\ i \in 1..Len(tasks)
    /\ tasks[i].st = "seedfetch"
    /\ \E outcome \in FetchOutcomes :
         IF outcome = "ok"
         THEN LET links == PageLinks(tasks[i].url)
                  analysis == ExtendAvoid(crawl_objective_analysis)
                  selected == select_best_links_for_recon(links, 7, analysis,
                                  desired_data_types)
              IN  /\ Answers
                  /\ crawl_objective_analysis' = analysis
                  /\ TaskDone(i, SelectSeq(LinkUrls(selected),
                                    LAMBDA u : u \notin visited_urls))
         ELSE /\ FetcherFails
              /\ TaskDone(i, << >>)
              /\ UNCHANGED crawl_objective_analysis
    /\ UNCHANGED << history, config, results, unit, base_domain, desired_data_types, pc, visited_urls,
                    url_queue, scraped_data, batch_results, seed_pages, nav,
                    site_knowledge, analysis_runs, fetch_calls >>

\* a seeding gather returns: its lists are appended to the queue, and the
\* next gather starts or the queue is de-duplicated
SeedBatchResolved ==
    /\ pc = "seed_batch"
    /\ InFlight = {}
    /\ SeedNext(url_queue \o ValidResults(tasks), seed_pages)
    /\ UNCHANGED << history, config, results, unit, faults, base_domain, objective, visited_urls,
                    scraped_data, batch_results, nav, site_knowledge,
                    analysis_runs >>

(***************************************************************************)
(* The deep crawl.                                                         *)
(***************************************************************************)
DeepIterate ==
    /\ pc = "deep"
    /\ IF url_queue # << >> /\ Cardinality(visited_urls) < max_pages
       THEN LoopIteration(deep_batch_size, max_pages, "deep", "deep_batch")
       ELSE /\ pc' = "done"
            /\ UNCHANGED << visited_urls, url_queue, tasks, fetch_calls,
                            dispatched >>
    /\ UNCHANGED << task_failure, config, results, unit, faults, base_domain, objective, scraped_data,
                    batch_results, seed_pages, nav, site_knowledge,
                    analysis_runs >>

DeepLinks ==
    /\ pc = "deep_links"
    /\ ProcessResult("deep", "deep_follow")
    /\ UNCHANGED << history, config, results, unit, faults, base_domain, objective, visited_urls,
                    url_queue, tasks, batch_results, seed_pages, nav,
                    site_knowledge, analysis_runs >>

\* _score_url_relevance: the heuristic_score of the deep-crawl pre-filter,
\* in whole units
score_url_relevance(link, su, analysis) ==
    LET url_pattern == extract_url_pattern(link.url)
        pattern_bonus ==
            IF url_pattern \in Range(su.high_value_url_patterns) THEN 2 ELSE 0
        seek_patterns == analysis.url_patterns_to_seek
    IN  5 + pattern_bonus
        + (IF link.is_main_content THEN 1 ELSE 0)
        + (IF link.is_prominent THEN 1 ELSE 0)
        + (IF Range(seek_patterns) \cap UrlPathWords(link.url) # {}
           THEN 2 ELSE 0)

\* scored_links of _ask_ollama_for_navigation_advanced: the first 30 links
\* with their score, sorted
ScoredLinks(links, su, analysis) ==
    LET first == Take(links, 30)
    IN  SortDesc([i \in 1..Len(first) |->
                     [score |-> score_url_relevance(first[i], su, analysis),
                      link |-> first[i]]])

ScoredUrls(scored_links) ==
    [i \in 1..Len(scored_links) |-> scored_links[i].link.url]

\* the follow-up fetch of the deep-crawl loop returns; with links the
\* navigation prompt is sent
DeepFollowReturn ==
    /\ pc = "deep_follow"
    /\ \E outcome \in FetchOutcomes :
         CASE outcome = "ok" ->
                LET page == Head(batch_results).url
                    links == PageLinks(page)
                    analysis == ExtendAvoid(crawl_objective_analysis)
                    scored_links == ScoredLinks(links, site_understanding,
                                                analysis)
                IN  /\ Answers
                    /\ crawl_objective_analysis' = analysis
                    /\ IF links = << >>
                       THEN /\ batch_results' = Tail(batch_results)
                            /\ pc' = "deep_links"
                            /\ UNCHANGED nav
                       ELSE /\ nav' = ScoredUrls(scored_links)
                            /\ pc' = "deep_nav"
                            /\ UNCHANGED batch_results
           [] outcome = "fail" ->
                /\ FetcherFails
                /\ batch_results' = Tail(batch_results)
                /\ pc' = "deep_links"
                /\ UNCHANGED << crawl_objective_analysis, nav >>
           [] OTHER ->
                /\ FetcherFails
                /\ pc' = "aborted"
                /\ UNCHANGED << crawl_objective_analysis, nav, batch_results >>
    /\ UNCHANGED << history, config, results, unit, base_domain, desired_data_types, visited_urls,
                    url_queue, scraped_data, tasks, seed_pages,
                    site_knowledge, analysis_runs, fetch_calls >>

RECURSIVE PickCandidates(_, _)
\* the candidates at the in-range 1-based indices among the given numbers
PickCandidates(numbers, top_candidates) ==
    IF numbers = << >> THEN << >>
    ELSE LET idx == Head(numbers) - 1
         IN  (IF 0 <= idx /\ idx < Len(top_candidates)
              THEN << top_candidates[idx + 1] >> ELSE << >>)
             \o PickCandidates(Tail(numbers), top_candidates)

\* a selection that takes every number of the answer
navigation_selection_uncapped(reply, scored_urls) ==
    IF reply.has_none THEN << >>
    ELSE PickCandidates(reply.numbers, Take(scored_urls, 12))

\* the URLs _ask_ollama_for_navigation_advanced returns for an answer
navigation_selection(reply, scored_urls) ==
    IF reply.has_none THEN << >>
    ELSE PickCandidates(Take(reply.numbers, 5), Take(scored_urls, 12))

\* a fallback that selects nothing
navigation_fallback_empty(scored_urls) == << >>

\* the URLs it returns when the Oracle call fails
navigation_fallback(scored_urls) == Take(scored_urls, 3)

\* the Oracle answers the navigation prompt, or fails
DeepNavReturn ==
    /\ pc = "deep_nav"
    /\ \/ \E r \in NavigationReplies :
            /\ oracle_up /\ Answers
            /\ url_queue' = EnqueueAll(url_queue, visited_urls,
                                       navigation_selection(r, nav))
       \/ /\ OracleFails
          /\ url_queue' = EnqueueAll(url_queue, visited_urls,
                                     navigation_fallback(nav))
    /\ batch_results' = Tail(batch_results)
    /\ nav' = << >>
    /\ pc' = "deep_links"
    /\ UNCHANGED << history, config, results, unit, base_domain, objective, visited_urls,
                    scraped_data, tasks, seed_pages, site_knowledge,
                    analysis_runs, fetch_calls >>

(***************************************************************************)
(* The specification.                                                      *)
(***************************************************************************)
Next ==
    \/ AnalyzeObjective
    \/ StartCrawl
    \/ ReconIterate
    \/ \E i \in 1..Len(tasks) : TaskFetchReturn(i)
    \/ \E i \in 1..Len(tasks) : TaskSectionsReturn(i)
    \/ \E i \in 1..Len(tasks) : TaskWholeReturn(i)
    \/ BatchResolved
    \/ ReconLinks
    \/ ReconFollowReturn
    \/ AnalysisReturn
    \/ SeedStart
    \/ \E i \in 1..Len(tasks) : SeedTaskReturn(i)
    \/ SeedBatchResolved
    \/ DeepIterate
    \/ DeepLinks
    \/ DeepFollowReturn
    \/ DeepNavReturn

Spec == Init /\ [][Next]_vars

(***************************************************************************)
(* Methods called on their own: the arguments are drawn from bounded sets, *)
(* the crawl itself stays where the constructor left it.                   *)
(***************************************************************************)
crawl_vars ==
    << config, faults, base_domain, objective, pc, visited_urls, url_queue,
       scraped_data, tasks, batch_results, seed_pages, nav, site_knowledge,
       analysis_runs, fetch_calls, history, results >>

\* links of pages of the site, as _extract_links_with_context returns them
SiteLinks ==
    << Anchor(4, {}, TRUE, FALSE, FALSE),
       Anchor(2, {"blog"}, FALSE, TRUE, FALSE),
       Anchor(7, {"docs"}, FALSE, FALSE, FALSE),
       Anchor(6, {"blog"}, FALSE, TRUE, FALSE),
       Anchor(3, {"blog"}, FALSE, FALSE, FALSE) >>

\* available_links of length n: the links above, then links to further
\* pages 100 + i of the site; those behind position 30 are in <main> and in
\* a heading, every second of them a link to /blog/3
RawLinks(n) ==
    [i \in 1..n |->
        IF i <= Len(SiteLinks) THEN SiteLinks[i]
        ELSE IF i <= 30
        THEN Anchor(100 + i, {}, FALSE, i % 2 = 0, i % 3 = 0)
        ELSE IF i % 2 = 0
        THEN Anchor(6, {"blog"}, FALSE, TRUE, TRUE)
        ELSE Anchor(100 + i, {}, FALSE, TRUE, TRUE)]

\* the outcomes of the navigation Oracle call: it raises, or it answers
NavigationOutcomes ==
    { [failed |-> TRUE, answer |-> << >>] }
    \cup { [failed |-> FALSE, answer |-> a] : a \in NavigationAnswers }

\* _ask_ollama_for_navigation_advanced as a whole
ask_ollama_for_navigation_advanced(available_links, su, analysis, outcome) ==
    IF available_links = << >> THEN << >>
    ELSE LET scored_urls ==
                 ScoredUrls(ScoredLinks(available_links, su, analysis))
         IN  IF outcome.failed
             THEN navigation_fallback(scored_urls)
             ELSE navigation_selection(
                      parse_navigation_answer(outcome.answer), scored_urls)

\* site_understanding with the given learned patterns
SiteUnderstandingWith(patterns) ==
    [keys |-> {"high_value_url_patterns"},
     high_value_url_patterns |-> patterns]

NavigationCall ==
    /\ fn_call = NoCall
    /\ \E n \in 0..MaxLinks,
          patterns \in { << >>, << << "blog", "*" >> >> },
          analysis \in {EmptyAnalysis} \cup ObjectiveReplies,
          outcome \in NavigationOutcomes :
          /\ fn_call' = [op |-> "navigation",
                         available_links |-> RawLinks(n),
                         high_value_url_patterns |-> patterns,
                         analysis |-> analysis,
                         outcome |-> outcome]
          /\ fn_result' = ask_ollama_for_navigation_advanced(
                              RawLinks(n), SiteUnderstandingWith(patterns),
                              analysis, outcome)
    /\ UNCHANGED crawl_vars

\* an entry of sections_analysis in the Oracle's answer to the section
\* prompt: section_id, relevance_score, and whether it has the key
\* extracted_content
Sec(section_id, relevance_score, has_content) ==
    [section_id |-> section_id, relevance_score |-> relevance_score,
     has_content |-> has_content]

\* the answer with section relevances 2, 8 and 5
ScenarioSections == << Sec(0, 2, TRUE), Sec(1, 8, TRUE), Sec(2, 5, TRUE) >>

\* sections_analysis lists the Oracle may answer, one entry per section
SectionAnalyses ==
    { ScenarioSections,
      << Sec(0, 2, TRUE), Sec(1, 8, FALSE), Sec(2, 5, TRUE) >>,
      << Sec(0, 4, TRUE), Sec(1, 3, TRUE) >>,
      << Sec(1, 10, TRUE), Sec(0, 9, FALSE), Sec(2, 0, TRUE) >>,
      << Sec(0, 3, FALSE), Sec(1, 1, TRUE) >>,
      << Sec(0, 7, TRUE) >>,
      << >> }

section_scores(sections_analysis) ==
    [i \in 1..Len(sections_analysis) |-> sections_analysis[i].relevance_score]

\* an extraction that keeps the block of every section that has one
extract_content_by_sections_all_blocks(sections_analysis, page_type) ==
    [page_type |-> page_type,
     relevance_score |-> MaxOf(section_scores(sections_analysis)),
     key_content |->
         { sections_analysis[i].section_id :
             i \in { j \in 1..Len(sections_analysis) :
                        sections_analysis[j].has_content } }]

\* the result of _extract_content_by_sections for an answer; key_content
\* as the set of section ids it has a block for
extract_content_by_sections(sections_analysis, page_type) ==
    [page_type |-> page_type,
     relevance_score |-> MaxOf(section_scores(sections_analysis)),
     key_content |->
         { sections_analysis[i].section_id :
             i \in { j \in 1..Len(sections_analysis) :
                        /\ sections_analysis[j].relevance_score >= 4
                        /\ sections_analysis[j].has_content } }]

SectionsCall ==
    /\ fn_call = NoCall
    /\ \E sections_analysis \in SectionAnalyses, page_type \in PageTypes :
          /\ fn_call' = [op |-> "sections",
                         sections_analysis |-> sections_analysis,
                         page_type |-> page_type]
          /\ fn_result' = extract_content_by_sections(sections_analysis,
                                                       page_type)
    /\ UNCHANGED crawl_vars

\* _update_site_knowledge of src/main.py: the same method with another
\* threshold
update_site_knowledge_main(prs, hvp, su, url, relevance, page_type) ==
    IF relevance >= 7
    THEN LET url_pattern == extract_url_pattern(url)
             su1 == IF url_pattern \notin Range(su.high_value_url_patterns)
                    THEN AppendPattern(su, url_pattern) ELSE su
         IN  [prs |-> [prs EXCEPT ![url] = relevance],
              hvp |-> Append(hvp, url),
              su |-> [su1 EXCEPT !.content_patterns[page_type] =
                          Append(@, [url |-> url, pattern |-> url_pattern,
                                     relevance |-> relevance])]]
    ELSE [prs |-> [prs EXCEPT ![url] = relevance], hvp |-> hvp, su |-> su]

\* the site knowledge before a call of _update_site_knowledge: nothing
\* learned, or the page /blog/1 recorded with the given relevance
SiteKnowledgeBefore ==
    { [prs |-> [u \in Urls |-> NoScore], hvp |-> << >>,
       su |-> [keys |-> {"site_type", "main_sections", "content_patterns",
                         "high_value_url_patterns", "recommended_focus"},
               site_type |-> "",
               content_patterns |-> [t \in PageTypes |-> << >>],
               high_value_url_patterns |-> << >>,
               high_priority_patterns |-> << >>,
               recommended_focus |-> "",
               strategy |-> "",
               patterns_aliased |-> FALSE]] }
    \cup
    { update_site_knowledge([u \in Urls |-> NoScore], << >>,
          [keys |-> {"site_type", "main_sections", "content_patterns",
                     "high_value_url_patterns", "recommended_focus"},
           site_type |-> "",
           content_patterns |-> [t \in PageTypes |-> << >>],
           high_value_url_patterns |-> << >>,
           high_priority_patterns |-> << >>,
           recommended_focus |-> "",
           strategy |-> "",
           patterns_aliased |-> FALSE], 2, r, "article") : r \in {3, 8} }

\* the relevance values an extraction result may carry
Relevances == 0..MaxRelevance

UpdateSiteKnowledgeCall ==
    /\ fn_call = NoCall
    /\ \E file \in {"agentic_crawler.py", "main.py"},
          before \in SiteKnowledgeBefore,
          url \in {3, 4, 7},
          relevance \in Relevances,
          page_type \in PageTypes :
          /\ fn_call' = [op |-> "update_site_knowledge", file |-> file,
                         before |-> before, url |-> url,
                         relevance |-> relevance, page_type |-> page_type]
          /\ fn_result' =
                IF file = "main.py"
                THEN update_site_knowledge_main(before.prs, before.hvp,
                         before.su, url, relevance, page_type)
                ELSE update_site_knowledge(before.prs, before.hvp,
                         before.su, url, relevance, page_type)
    /\ UNCHANGED crawl_vars

\* link dicts as _extract_links_with_context builds them: a target, the
\* words of anchor text and context, and the three structural flags
HeuristicLinks ==
    { Anchor(u, text, is_nav, is_main, is_prom) :
        u \in {2, 4, 5, 7},
        text \in { {}, {"blog"}, {"posts"}, {"terms"}, {"login", "account"} },
        is_nav \in BOOLEAN, is_main \in BOOLEAN, is_prom \in BOOLEAN }

ScoreLinkCall ==
    /\ fn_call = NoCall
    /\ \E link \in HeuristicLinks,
          analysis \in {EmptyAnalysis} \cup ObjectiveReplies,
          data_types \in { << >>, << "posts" >> } :
          /\ fn_call' = [op |-> "score_link_relevance_heuristic",
                         link |-> link, analysis |-> analysis,
                         data_types |-> data_types]
          /\ fn_result' =
                score_link_relevance_heuristic(link, analysis, data_types)
    /\ UNCHANGED crawl_vars

ScoreUrlCall ==
    /\ fn_call = NoCall
    /\ \E link \in HeuristicLinks,
          patterns \in { << >>, << << "blog", "*" >> >> },
          analysis \in {EmptyAnalysis} \cup ObjectiveReplies :
          /\ fn_call' = [op |-> "score_url_relevance", link |-> link,
                         high_value_url_patterns |-> patterns,
                         analysis |-> analysis]
          /\ fn_result' =
                LET heuristic_score ==
                        score_url_relevance(link,
                            SiteUnderstandingWith(patterns), analysis)
                IN  [relevance_score |-> heuristic_score,
                     priority |-> IF heuristic_score >= 8 THEN "high"
                                  ELSE IF heuristic_score >= 6 THEN "medium"
                                  ELSE "low"]
    /\ UNCHANGED crawl_vars

\* the numbers the Oracle may put into a relevance_score field
OracleRelevances == (0 - 1)..(MaxRelevance + 2)

\* the extraction results _extract_content_with_ai may return for a page:
\* the whole-page answer as the Oracle gave it, the result compiled from a
\* section answer, or the fallback of a failed call
Extractions(url) ==
    { PageData(url, r, t) : r \in OracleRelevances, t \in PageTypes }
    \cup
    { LET e == extract_content_by_sections(sa, "article")
      IN  PageData(url, e.relevance_score, e.page_type) :
        sa \in SectionAnalyses
                \cup { << Sec(0, r, TRUE), Sec(1, 5, TRUE) >> :
                          r \in OracleRelevances } }
    \cup { FallbackExtraction(url) }

\* _crawl_page on its own: None without a usable page, otherwise the
\* page_data record with the relevance_score and page_type of the extraction
CrawlPageCall ==
    /\ fn_call = NoCall
    /\ \E url \in {2, 7}, outcome \in FetchOutcomes :
          IF outcome = "ok"
          THEN \E ai_extraction \in Extractions(url) :
                  /\ fn_call' = [op |-> "crawl_page", url |-> url,
                                 outcome |-> outcome,
                                 ai_extraction |-> ai_extraction]
                  /\ fn_result' = << PageData(url,
                                         ai_extraction.relevance_score,
                                         ai_extraction.page_type) >>
          ELSE /\ fn_call' = [op |-> "crawl_page", url |-> url,
                              outcome |-> outcome,
                              ai_extraction |-> << >>]
               /\ fn_result' = << >>
    /\ UNCHANGED crawl_vars

\* the link lists handed to _select_best_links_for_recon: the links of the
\* pages of the site and prefixes of the long list
SelectionInputs ==
    { PageAnchors(u) : u \in Urls } \cup { RawLinks(n) : n \in 0..MaxSelect }

SelectCall ==
    /\ fn_call = NoCall
    /\ \E links \in SelectionInputs,
          count \in {0, 1, 2, 3, 7, 8},
          analysis \in {EmptyAnalysis} \cup ObjectiveReplies,
          data_types \in { << >>, << "posts" >> } :
          /\ fn_call' = [op |-> "select_best_links_for_recon",
                         links |-> links, count |-> count,
                         analysis |-> analysis, data_types |-> data_types]
          /\ fn_result' = select_best_links_for_recon(links, count, analysis,
                                                      data_types)
    /\ UNCHANGED crawl_vars

\* the URLs _extract_url_pattern is called on: those of the site, a URL
\* with a segment of 31 characters, one of 30 and a numeric one (9), and
\* /blog/1?page=2 (10)
PatternUrls == Urls \cup {9, 10}

\* a segment of the path of a pattern string, as split('/') gives it
PathSegmentOf(text) ==
    IF text = "*" THEN Seg("*", FALSE, 1, {})
    ELSE CHOOSE seg \in UNION { Range(UrlPathParts(u)) : u \in PatternUrls } :
            seg.text = text

\* urlparse(pattern).path split at '/', for a pattern the method returned
PatternPathParts(pattern) ==
    [i \in 1..Len(pattern) |-> PathSegmentOf(pattern[i])]

\* _extract_url_pattern on a URL, and again on the pattern it returned
PatternCall ==
    /\ fn_call = NoCall
    /\ \E url \in PatternUrls :
          /\ fn_call' = [op |-> "extract_url_pattern", url |-> url]
          /\ fn_result' =
                [pattern |-> extract_url_pattern(url),
                 again |-> PatternParts(
                               PatternPathParts(extract_url_pattern(url)))]
    /\ UNCHANGED crawl_vars

\* the orders in which n tasks of a gather may complete
CompletionOrders(n) ==
    {p \in [1..n -> 1..n] : \A i, j \in 1..n : p[i] = p[j] => i = j}

\* what a _crawl_page task of the gather gives: a page_data record, None, or
\* an exception (kept by return_exceptions=True)
TaskOutcomes == {"page", "none", "raise"}

\* _crawl_pages_batch on its own: the URLs not yet visited get a task, the
\* tasks complete in some order, and the gather hands back their results,
\* of which the records are kept
BatchCall ==
    /\ fn_call = NoCall
    /\ \E urls \in { << 2 >>, << 2, 3 >>, << 2, 3, 6 >>, << 7, 2, 7 >> },
          visited \in { {}, {3} } :
          LET task_urls == DispatchUrls(urls, visited)
              n == Len(task_urls)
          IN  \E outcomes \in [1..n -> TaskOutcomes],
                 completion \in CompletionOrders(n) :
                 LET gathered ==
                         [i \in 1..n |->
                            [url |-> task_urls[i], st |-> "done",
                             result |->
                                 IF outcomes[i] = "page"
                                 THEN << PageData(task_urls[i], 8, "article") >>
                                 ELSE << >>]]
                 IN  /\ fn_call' = [op |-> "crawl_pages_batch",
                                    urls |-> urls, visited |-> visited,
                                    tasks |-> gathered,
                                    completion |-> completion]
                     /\ fn_result' = ValidResults(gathered)
    /\ UNCHANGED crawl_vars

\* what ollama.generate may do in its thread: return a response, raise, or
\* never return
OllamaBehaviours == {"answers", "raises", "silent"}

\* the await of _async_ollama_generate: loop.run_in_executor without
\* asyncio.wait_for and without a timeout argument ends only when the
\* thread ends, by a response or by an exception
async_ollama_generate(behaviour) ==
    CASE behaviour = "answers" -> "returned"
      [] behaviour = "raises" -> "raised"
      [] OTHER -> "pending"

\* an Oracle call of one of the five call sites
OllamaGenerateCall ==
    /\ fn_call = NoCall
    /\ \E site \in {"objective", "sections", "whole_page", "structure",
                     "navigation"},
          behaviour \in OllamaBehaviours :
          /\ fn_call' = [op |-> "async_ollama_generate", site |-> site,
                         behaviour |-> behaviour]
          /\ fn_result' = async_ollama_generate(behaviour)
    /\ UNCHANGED crawl_vars

\* the URLs one reconnaissance page contributes to the deep-crawl queue:
\* the links selected for seeding (agentic_crawler.py), or the first five
\* links (main.py), without the visited ones
seed_links(file, page_url, visited) ==
    LET links == extract_links_with_context(page_url, UrlHost(StartUrl),
                     visited, AvoidPatternsAfterExtend(EmptyAnalysis))
        taken == IF file = "main.py" THEN Take(links, 5)
                 ELSE select_best_links_for_recon(links, 7, EmptyAnalysis,
                                                  << >>)
    IN  SelectSeq(LinkUrls(taken), LAMBDA u : u \notin visited)

\* the relevance a logged page needs to seed the deep crawl
seed_threshold(file) == IF file = "main.py" THEN 6 ELSE 5

RECURSIVE seeded_urls(_, _, _, _)
\* url_queue before the de-duplication: the lists of the pages of
\* scraped_data at or above the threshold whose fetch succeeded
seeded_urls(file, pages, visited, failing) ==
    IF pages = << >> THEN << >>
    ELSE (IF Head(pages).relevance_score >= seed_threshold(file)
             /\ Head(pages).url \notin failing
          THEN seed_links(file, Head(pages).url, visited) ELSE << >>)
         \o seeded_urls(file, Tail(pages), visited, failing)

\* the seeding of the deep-crawl queue on its own: url_queue is reset, the
\* lists are collected and de-duplicated
SeedCall ==
    /\ fn_call = NoCall
    /\ \E file \in {"agentic_crawler.py", "main.py"},
          relevance \in [1..3 -> {4, 5, 6}],
          failing \in SUBSET {1, 2, 4},
          leftover \in { << >>, << 7 >> } :
          LET pages == << PageData(1, relevance[1], "listing"),
                          PageData(2, relevance[2], "article"),
                          PageData(4, relevance[3], "unknown") >>
              visited == {1, 2, 4}
          IN  /\ fn_call' = [op |-> "seed_queue", file |-> file,
                             scraped_data |-> pages, visited |-> visited,
                             failing |-> failing, url_queue |-> leftover]
              /\ fn_result' = Dedupe(seeded_urls(file, pages, visited,
                                                 failing))
    /\ UNCHANGED crawl_vars

\* the links _extract_links_with_context returns for a page of the deep
\* crawl
deep_page_links(page, visited) ==
    extract_links_with_context(page, UrlHost(StartUrl), visited,
                               AvoidPatternsAfterExtend(EmptyAnalysis))

\* the local variable links of crawl_website after the follow-up fetch of
\* a page: it is assigned only when the fetch succeeded
links_after_follow_up(links_before, success, page, visited) ==
    IF success THEN deep_page_links(page, visited) ELSE links_before

\* the link list the deep-crawl loop hands to navigation selection for a
\* processed page, << >> when it hands none: main.py tests `if links:`
\* beside the success test, agentic_crawler.py inside it
offered_links(file, links_before, success, page, visited) ==
    IF file = "main.py" \/ success
    THEN links_after_follow_up(links_before, success, page, visited)
    ELSE << >>

\* url_queue after the deep-crawl loop processed one page
deep_page_enqueue(file, links_before, success, page, visited, queue, reply) ==
    LET offered == offered_links(file, links_before, success, page, visited)
        scored_links == ScoredLinks(offered, SiteUnderstandingWith(<< >>),
                                    EmptyAnalysis)
    IN  IF offered = << >> THEN queue
        ELSE EnqueueAll(queue, visited,
                        navigation_selection(reply, ScoredUrls(scored_links)))

\* the processing of one page of the deep crawl on its own: follow-up
\* fetch, link extraction, navigation selection, enqueueing
DeepPageCall ==
    /\ fn_call = NoCall
    /\ \E file \in {"agentic_crawler.py", "main.py"},
          page \in {1, 2, 4},
          previous \in {0, 1, 2, 4},
          success \in BOOLEAN,
          queue \in { << >>, << 7 >> },
          reply \in NavigationReplies :
          LET visited == {1, 2, 4}
              links_before == IF previous = 0 THEN << >>
                              ELSE deep_page_links(previous, visited)
          IN  /\ fn_call' = [op |-> "deep_page", file |-> file,
                             page |-> page, visited |-> visited,
                             links |-> LinkUrls(links_before),
                             success |-> success, url_queue |-> queue]
              /\ fn_result' =
                    [offered |-> LinkUrls(offered_links(file, links_before,
                                              success, page, visited)),
                     url_queue |-> deep_page_enqueue(file, links_before,
                                       success, page, visited, queue, reply)]
    /\ UNCHANGED crawl_vars

\* a page_type the Oracle gave as a JSON array: json.loads makes it a list,
\* which is truthy and cannot be a key of content_patterns
UnhashablePageType == "[array]"

\* the page_type values of an Oracle answer
OraclePageTypes == PageTypes \cup {UnhashablePageType}

\* _update_site_knowledge for any page_type of an answer: with an unhashable
\* page_type content_patterns[page_type] raises TypeError, after the appends
\* to high_value_pages and high_value_url_patterns
update_site_knowledge_raising(prs, hvp, su, url, relevance, page_type) ==
    IF relevance >= 6 /\ page_type = UnhashablePageType
    THEN LET url_pattern == extract_url_pattern(url)
         IN  [prs |-> [prs EXCEPT ![url] = relevance],
              hvp |-> Append(hvp, url),
              su |-> IF url_pattern \notin Range(su.high_value_url_patterns)
                     THEN AppendPattern(su, url_pattern) ELSE su,
              raised |-> TRUE]
    ELSE LET done == update_site_knowledge(prs, hvp, su, url, relevance,
                                           page_type)
         IN  [prs |-> done.prs, hvp |-> done.hvp, su |-> done.su,
              raised |-> FALSE]

\* the site knowledge after _extract_content_by_sections ran for a page:
\* the update with the compiled result, and when it raises the except
\* branch runs _extract_content_whole_page, which updates with its own
\* answer unless its Oracle call fails
knowledge_after_extraction(before, url, by_sections, whole_page) ==
    LET first == update_site_knowledge_raising(before.prs, before.hvp,
                     before.su, url, by_sections.relevance_score,
                     by_sections.page_type)
    IN  IF ~first.raised \/ whole_page = << >> THEN first
        ELSE update_site_knowledge_raising(first.prs, first.hvp, first.su,
                 url, whole_page[1].relevance_score, whole_page[1].page_type)

\* the extraction of one page by sections on its own, with the answers of
\* the Oracle to the section prompt and to the whole-page prompt
ExtractionCall ==
    /\ fn_call = NoCall
    /\ \E before \in SiteKnowledgeBefore,
          url \in {3, 4, 7},
          r1 \in {3, 6, 9},
          t1 \in OraclePageTypes,
          whole_page \in { << >> } \cup
              { << [relevance_score |-> r2, page_type |-> t2] >> :
                   r2 \in {3, 6, 9}, t2 \in OraclePageTypes } :
          LET by_sections == [relevance_score |-> r1, page_type |-> t1]
          IN  /\ fn_call' = [op |-> "extraction", before |-> before,
                             url |-> url, by_sections |-> by_sections,
                             whole_page |-> whole_page]
              /\ fn_result' = knowledge_after_extraction(before, url,
                                  by_sections, whole_page)
    /\ UNCHANGED crawl_vars

FnInit ==
    /\ Init
    /\ max_pages = MaxMaxPages
    /\ concurrency = 1
    /\ start_scheme = "https"
    /\ oracle_up

FnNext ==
    \/ NavigationCall
    \/ SectionsCall
    \/ UpdateSiteKnowledgeCall
    \/ ScoreLinkCall
    \/ ScoreUrlCall
    \/ CrawlPageCall
    \/ SelectCall
    \/ PatternCall
    \/ BatchCall
    \/ OllamaGenerateCall
    \/ SeedCall
    \/ DeepPageCall
    \/ ExtractionCall

FnSpec == FnInit /\ [][FnNext]_vars

(***************************************************************************)
(* Properties.                                                             *)
(***************************************************************************)
ReconPcs == {"recon", "recon_batch", "recon_links", "recon_follow"}

DeepPcs == {"seed", "seed_batch", "deep", "deep_batch", "deep_links",
            "deep_follow", "deep_nav"}

\* a configuration the specification allows: a positive max_pages, a
\* concurrency in 1..10, an http(s) start URL
ValidConfiguration ==
    /\ max_pages > 0
    /\ concurrency \in 1..10
    /\ start_scheme \in {"http", "https"}

RunEnded == pc \in {"done", "aborted"}

NoDuplicates(q) == \A i, j \in 1..Len(q) : q[i] = q[j] => i = j

LoggedUrls == {scraped_data[i].url : i \in 1..Len(scraped_data)}

\* the URLs a record exists for: logged, waiting in batch_results, or held
\* as the result of a finished task of the batch in flight
RecordsOf(u) ==
    {scraped_data[i] : i \in {k \in 1..Len(scraped_data) :
                                 scraped_data[k].url = u}}
    \cup {batch_results[i] : i \in {k \in 1..Len(batch_results) :
                                       batch_results[k].url = u}}
    \cup {tasks[i].result[1] : i \in {k \in 1..Len(tasks) :
                                        /\ InBatch
                                        /\ tasks[k].url = u
                                        /\ tasks[k].result # << >>}}

\* C1: in a crawl with a positive max_pages the number of URLs marked
\* visited never exceeds max_pages.
C1_VisitedWithinMaxPages ==
    max_pages > 0 => Cardinality(visited_urls) <= max_pages

\* C2: no URL gets a fetch+extract task more than once in a run, and every
\* URL of the batch in flight is in the visited set.
C2_NoUrlDispatchedTwice ==
    /\ \A u \in Urls : dispatched[u] <= 1
    /\ \A u \in Urls : dispatched[u] = 1 => u \in visited_urls
    /\ InBatch => \A i \in 1..Len(tasks) : tasks[i].url \in visited_urls

\* a deep-crawl batch of two tasks in flight, after pages that link back to
\* visited URLs have been processed
C2_Witness ==
    /\ pc = "deep_batch"
    /\ Len(tasks) = 2
    /\ Cardinality(visited_urls) = 7

\* C3 as claimed: at every state the frontier holds no visited URL and no URL
\* twice, and enqueueing a visited or queued URL leaves it unchanged.
C3_FrontierAlwaysClean ==
    ValidConfiguration =>
        /\ Range(url_queue) \cap visited_urls = {}
        /\ NoDuplicates(url_queue)
        /\ \A u \in visited_urls \cup Range(url_queue) :
               Enqueue(url_queue, visited_urls, u) = url_queue

\* C3 as amended: the frontier never holds a visited URL; it holds no URL
\* twice except while the deep-crawl frontier is being seeded (pc is
\* "seed_batch"); enqueueing a visited or queued URL leaves it unchanged.
C3_FrontierCleanOutsideSeeding ==
    /\ Range(url_queue) \cap visited_urls = {}
    /\ pc # "seed_batch" => NoDuplicates(url_queue)
    /\ \A u \in visited_urls \cup Range(url_queue) :
           Enqueue(url_queue, visited_urls, u) = url_queue

\* page 3, which links to page 6 twice and to page 7, has been processed in
\* reconnaissance and both are queued once
C3_Witness ==
    /\ pc = "recon_links"
    /\ scraped_data # << >>
    /\ scraped_data[Len(scraped_data)].url = 3
    /\ {6, 7} \subseteq Range(url_queue)
    /\ 2 \in LoggedUrls

\* C4: during reconnaissance and when it ends, the number of visited URLs is
\* at most recon_budget = max(5, max_pages // 10), for every concurrency in
\* 1..10.
C4_ReconWithinBudget ==
    (pc \in ReconPcs \cup {"analysis"} /\ concurrency \in 1..10)
        => Cardinality(visited_urls) <= recon_budget

\* a reconnaissance batch that the remaining budget made smaller than the
\* concurrency and the queue allowed
C4_Witness ==
    /\ pc = "recon_batch"
    /\ Cardinality(visited_urls) = recon_budget
    /\ Len(tasks) < concurrency
    /\ url_queue # << >>

\* C5: with a positive max_pages and a concurrency in 1..10, a started crawl
\* eventually reaches Done and returns the log, whatever the Fetcher and the
\* Oracle answer; as the final result of a run: a crawl that has come to
\* rest is at Done.
C5_EndedCrawlIsDone ==
    (ValidConfiguration /\ RunEnded) => pc = "done"

\* C6: no failure of the Fetcher or the Oracle about a single page aborts
\* the batch, the phase or the crawl: no step leads out of the crawl loops
\* other than to the next phase.
C6_NoFailureAborts ==
    [][ValidConfiguration => pc' # "aborted"]_vars

\* C7 as claimed: a URL whose fetch or extraction failed stays visited and
\* has no record.
C7_FailedUrlHasNoRecord ==
    ValidConfiguration =>
        \A u \in Urls :
            task_failure[u] # "none"
                => (u \in visited_urls /\ RecordsOf(u) = {})

\* a task that returns None leaves the control state and the other tasks of
\* its batch as they are
FailedTaskLeavesBatch ==
    \A i \in 1..Len(tasks) :
        (InBatch /\ tasks[i].st # "done" /\ Len(tasks') = Len(tasks)
         /\ tasks'[i].st = "done" /\ tasks'[i].result = << >>)
        => /\ pc' = pc
           /\ \A j \in 1..Len(tasks) : j # i => tasks'[j] = tasks[j]

\* every task of a resolved batch that returned a page_data is processed
ResolvedBatchKeepsResults ==
    (InBatch /\ pc' \in {"recon_links", "deep_links"})
        => \A i \in 1..Len(tasks) :
              tasks[i].result # << >>
                => \E k \in 1..Len(batch_results') :
                      batch_results'[k] = tasks[i].result[1]

\* C7 as amended: a URL whose fetch failed (or whose page raised before the
\* extraction prompt) stays visited and has no record; a URL whose extraction
\* Oracle calls failed stays visited and has exactly the fallback record
\* (page_type "unknown", relevance 5); the other tasks of the batch go on.
C7_FailedUrlRecord ==
    /\ [](\A u \in Urls :
            /\ task_failure[u] # "none" => u \in visited_urls
            /\ task_failure[u] = "fetch" => RecordsOf(u) = {}
            /\ task_failure[u] = "oracle"
                 => RecordsOf(u) = {PageData(u, 5, "unknown")})
    /\ [][FailedTaskLeavesBatch /\ ResolvedBatchKeepsResults]_vars

\* all tasks of a batch have returned: the fetch of one URL failed, another
\* URL of the same batch has its page_data
C7_Witness ==
    /\ InBatch
    /\ InFlight = {}
    /\ \E i, j \in 1..Len(tasks) :
          /\ tasks[i].result = << >>
          /\ task_failure[tasks[i].url] = "fetch"
          /\ tasks[i].url \in visited_urls
          /\ tasks[j].result # << >>

PhaseRank(p) ==
    CASE p \in {"init", "start"} -> 0
      [] p \in ReconPcs -> 1
      [] p = "analysis" -> 2
      [] p \in DeepPcs -> 3
      [] OTHER -> 4

\* C8: the phase only advances along Init, Reconnaissance,
\* StructureAnalysis, DeepCrawl, Done, and the structure analysis runs
\* exactly once in every run.
C8_PhasesAdvanceAnalysisOnce ==
    /\ [][PhaseRank(pc') >= PhaseRank(pc)]_vars
    /\ [](analysis_runs <= 1)
    /\ []((ValidConfiguration /\ RunEnded) => analysis_runs = 1)

TaskReturnsExtraction(i) ==
    /\ InBatch
    /\ i \in InFlight
    /\ Len(tasks') = Len(tasks)
    /\ tasks'[i].st = "done"
    /\ tasks'[i].result # << >>
    /\ tasks'[i].result[1] # FallbackExtraction(tasks[i].url)

C10_BadConfigurationCrawlsNothing ==
    (max_pages <= 0 \/ start_scheme \notin {"http", "https"})
        => /\ visited_urls = {}
           /\ \A u \in Urls : fetch_calls[u] = 0

\* C11: with max_pages = 5 and concurrency = 3 the reconnaissance budget is
\* 5, and once the deep-crawl budget max_pages - |visited| is 0 no step of
\* the deep-crawl phase calls the Fetcher.
C11_NoFetchWithoutDeepBudget ==
    /\ []((max_pages = 5 /\ concurrency = 3) => recon_budget = 5)
    /\ [][(/\ max_pages = 5
           /\ concurrency = 3
           /\ start_scheme \in {"http", "https"}
           /\ pc \in DeepPcs
           /\ max_pages - Cardinality(visited_urls) = 0)
            => fetch_calls' = fetch_calls]_vars

\* C12: when the Oracle call of analyze_user_objective fails or its reply
\* is not valid JSON, the call returns exactly the fixed default analysis
\* (data types "general content", key fields title/content/links, avoid
\* patterns login/signup/cart, strategy "Extract all available content"),
\* with no field of the failed reply.
C12_FailureReturnsDefault ==
    [][(pc = "init" /\ (faults' # faults \/ ~oracle_up))
        => /\ Len(objective_result') = 1
           /\ objective_result'[1].data_types = << "general content" >>
           /\ objective_result'[1].key_fields
                = << "title", "content", "links" >>
           /\ objective_result'[1].url_patterns_to_seek = << >>
           /\ objective_result'[1].url_patterns_to_avoid
                = << "login", "signup", "cart" >>
           /\ objective_result'[1].extraction_strategy
                = "Extract all available content"]_vars

\* the objective-analysis call failed and has returned the default
C12_Witness ==
    /\ pc = "start"
    /\ faults = 1
    /\ objective_result = << DefaultAnalysis >>

\* C13: when the objective analysis fails, the analysis the crawl operates
\* with (data types and seek patterns of link scoring, avoid patterns of
\* link filtering, key fields of extraction) is the fixed default analysis.
C13_CrawlUsesDefaultAnalysis ==
    (ValidConfiguration /\ pc # "init"
     /\ objective_result = << DefaultAnalysis >>)
        => /\ desired_data_types = DefaultAnalysis.data_types
           /\ crawl_objective_analysis.key_fields = DefaultAnalysis.key_fields
           /\ crawl_objective_analysis.url_patterns_to_seek
                = DefaultAnalysis.url_patterns_to_seek
           /\ Range(DefaultAnalysis.url_patterns_to_avoid)
                \subseteq Range(crawl_objective_analysis.url_patterns_to_avoid)

\* C14: once the objective analysis has returned, no operation of the crawl
\* changes a field of the stored analysis; its avoid list at Done is the
\* one it had when reconnaissance started.
C14_AnalysisNeverChanges ==
    [][(ValidConfiguration /\ pc # "init")
        => /\ crawl_objective_analysis' = crawl_objective_analysis
           /\ desired_data_types' = desired_data_types]_vars

\* the positions of available_links the pre-filter of a navigation call
\* scores: the first 30
Considered == 1..Min2(30, Len(fn_call.available_links))

\* the pre-score of the link at position i
PreScore(i) ==
    score_url_relevance(fn_call.available_links[i],
        SiteUnderstandingWith(fn_call.high_value_url_patterns),
        fn_call.analysis)

\* the place of position j in descending order of pre-score, earlier
\* positions first among equals
Rank(j) ==
    1 + Cardinality({i \in Considered :
                        \/ PreScore(i) > PreScore(j)
                        \/ PreScore(i) = PreScore(j) /\ i < j})

\* the candidates shown to the Oracle: the 12 best ranked
NumCandidates == Min2(12, Cardinality(Considered))

CandidateUrl(k) ==
    fn_call.available_links[CHOOSE j \in Considered : Rank(j) = k].url

NavigationAnswered ==
    fn_call.op = "navigation" /\ ~fn_call.outcome.failed

NavigationFailed ==
    fn_call.op = "navigation" /\ fn_call.outcome.failed

\* C15: the selection takes every integer token of the answer and ignores
\* the text around them: for "2,5,NONE-ish-garbage,1" and at least 5
\* candidates it returns the candidates 2, 5 and 1, in that order.
C15_GarbageTokenIgnored ==
    (/\ NavigationAnswered
     /\ fn_call.outcome.answer = AnswerWithGarbage
     /\ NumCandidates >= 5)
        => fn_result = << CandidateUrl(2), CandidateUrl(5), CandidateUrl(1) >>

\* C16: for every answer the selection has at most 5 URLs, each the URL of
\* one of the at most 12 candidates (the best pre-scored among the first 30
\* links, in descending order) at an index the answer names; indices below
\* 1 or above the number of candidates contribute nothing.
C16_SelectionWithinCandidates ==
    NavigationAnswered =>
        LET numbers == answer_numbers(fn_call.outcome.answer)
            in_range == {p \in 1..Len(numbers) :
                           numbers[p] \in 1..NumCandidates}
        IN  /\ Len(fn_result) <= 5
            /\ Len(fn_result) <= Cardinality(in_range)
            /\ \A k \in 1..Len(fn_result) :
                  \E p \in in_range : fn_result[k] = CandidateUrl(numbers[p])

\* of 32 links the candidates 12 and 11 are selected; the numbers 13, 0 and
\* 31 of the answer select nothing
C16_Witness ==
    /\ NavigationAnswered
    /\ Len(fn_call.available_links) = 32
    /\ answer_numbers(fn_call.outcome.answer)
         = << 13, 12, 0, 11, 31, 2, 3, 4 >>
    /\ fn_result = << CandidateUrl(12), CandidateUrl(11) >>

\* C17: when the navigation Oracle call fails and the page has a candidate
\* link, the call returns the min(3, number of candidates) candidates with
\* the highest pre-score, never nothing, and returns normally.
C17_FallbackTopThree ==
    (NavigationFailed /\ fn_call.available_links # << >>)
        => /\ fn_result # << >>
           /\ Len(fn_result) = Min2(3, NumCandidates)
           /\ \A k \in 1..Len(fn_result) : fn_result[k] = CandidateUrl(k)

\* the call failed on a page with two links: both are returned
C17_Witness ==
    /\ NavigationFailed
    /\ Len(fn_call.available_links) = 2
    /\ Len(fn_result) = 2

\* the step in which the structure-analysis Oracle call fails
StructureAnalysisFails ==
    pc = "analysis" /\ (faults' # faults \/ ~oracle_up)

\* the step in which it answers with a JSON object
StructureAnalysisAnswers ==
    pc = "analysis" /\ pc' # pc /\ faults' = faults /\ oracle_up

\* C18: a failure of the structure-analysis Oracle call yields the fallback
\* strategy continue_deep and does not stop the crawl: the deep crawl is
\* entered next, from the same frontier, visited set and log, as after an
\* answered analysis.
C18_AnalysisFailureContinues ==
    /\ [][StructureAnalysisFails
            => site_understanding'.strategy = "continue_deep"]_vars
    /\ [][pc = "analysis"
            => /\ pc' = "seed"
               /\ UNCHANGED << visited_urls, url_queue, scraped_data,
                               fetch_calls >>]_vars

\* the deep crawl dispatches a batch after the analysis fell back
C18_Witness ==
    /\ pc = "deep_batch"
    /\ site_understanding.site_type = "unknown"
    /\ site_understanding.strategy = "continue_deep"

\* C19: high_value_url_patterns only grows during a run, whatever document
\* the structure-analysis Oracle returns.
C19_PatternsOnlyGrow ==
    [][ValidConfiguration
        => Range(site_understanding.high_value_url_patterns)
             \subseteq Range(site_understanding'.high_value_url_patterns)]_vars

\* C20: after the structure analysis the patterns the Oracle returned as
\* high_priority_patterns are merged by union into the pattern set of the
\* deep-crawl pre-filter (high_value_url_patterns), learned patterns kept;
\* site_type, recommended_focus and strategy are replaced by the returned
\* values.
C20_PriorityPatternsMerged ==
    [][(/\ ValidConfiguration
        /\ StructureAnalysisAnswers
        /\ "high_priority_patterns" \in site_understanding'.keys)
        => /\ Range(site_understanding'.high_value_url_patterns)
                = Range(site_understanding.high_value_url_patterns)
                  \cup Range(site_understanding'.high_priority_patterns)
           /\ \E r \in StructureReplies :
                /\ "high_priority_patterns" \in r.keys
                /\ "site_type" \in r.keys
                     => site_understanding'.site_type = r.site_type
                /\ "recommended_focus" \in r.keys
                     => site_understanding'.recommended_focus
                          = r.recommended_focus
                /\ "strategy" \in r.keys
                     => site_understanding'.strategy = r.strategy]_vars

\* C21: for a page analysed by sections the recorded relevance is the
\* maximum of the section scores of the answer, and key_content has a block
\* for a section exactly when the section scored >= 4 and the answer has
\* its extracted content.
C21_SectionMaxAndBlocks ==
    fn_call.op = "sections" =>
        LET entries == fn_call.sections_analysis
        IN  /\ \A i \in 1..Len(entries) :
                  /\ entries[i].relevance_score <= fn_result.relevance_score
                  /\ entries[i].section_id \in fn_result.key_content
                       <=> (/\ entries[i].relevance_score >= 4
                            /\ entries[i].has_content)
            /\ entries # << >> =>
                  \E i \in 1..Len(entries) :
                      entries[i].relevance_score = fn_result.relevance_score
            /\ fn_result.key_content
                  \subseteq { entries[i].section_id : i \in 1..Len(entries) }

\* section relevances 2, 8, 5: relevance 8, blocks of the sections that
\* scored 8 and 5 only
C21_Witness ==
    /\ fn_call.op = "sections"
    /\ fn_call.sections_analysis = ScenarioSections
    /\ fn_result.relevance_score = 8
    /\ fn_result.key_content = {1, 2}

\* the last-resort extraction: page type "unknown", relevance 5
LastResort(url) == PageData(url, 5, "unknown")

\* the step is an Oracle failure inside task i
OracleFailsInTask(i) ==
    /\ InBatch
    /\ Len(tasks') = Len(tasks)
    /\ tasks'[i] # tasks[i]
    /\ tasks[i].st \in {"sections", "whole"}
    /\ (faults' # faults \/ ~oracle_up)

\* C22 as claimed: when a step of the extraction of a page fails, the
\* section-scoring Oracle call included, the extraction result of the page
\* is the last-resort extraction.
C22_AnyFailureGivesLastResort ==
    ValidConfiguration =>
        \A i \in 1..Len(tasks) :
            (InBatch /\ tasks[i].st = "done" /\ tasks[i].sections_failed)
                => tasks[i].result = << LastResort(tasks[i].url) >>

\* C22 as amended: a failed section-scoring call sends the page to the
\* whole-page extraction; a failed whole-page call gives the last-resort
\* extraction; so after a failed section-scoring call the result is what
\* the whole-page Oracle call answered or, if that failed too, the
\* last-resort extraction.
C22_SectionFailureRetriesWholePage ==
    /\ [][\A i \in 1..Len(tasks) :
            (OracleFailsInTask(i) /\ tasks[i].st = "sections")
                => /\ tasks'[i].st = "whole"
                   /\ tasks'[i].result = << >>]_vars
    /\ [][\A i \in 1..Len(tasks) :
            (OracleFailsInTask(i) /\ tasks[i].st = "whole")
                => /\ tasks'[i].st = "done"
                   /\ tasks'[i].result = << LastResort(tasks[i].url) >>]_vars
    /\ [](\A i \in 1..Len(tasks) :
            (InBatch /\ tasks[i].st = "done" /\ tasks[i].sections_failed)
                => \/ tasks[i].result = << LastResort(tasks[i].url) >>
                   \/ \E r \in WholePageReplies :
                         tasks[i].result
                           = << PageData(tasks[i].url, r.relevance_score,
                                         r.page_type) >>)

\* the section-scoring call of a task failed and its whole-page call was
\* answered with relevance 8
C22_Witness ==
    /\ InBatch
    /\ \E i \in 1..Len(tasks) :
          /\ tasks[i].st = "done"
          /\ tasks[i].sections_failed
          /\ tasks[i].result # << >>
          /\ tasks[i].result[1].relevance_score = 8

\* C23: _update_site_knowledge always records the relevance under the URL;
\* with relevance >= 6 it also adds the URL to the high-value pages,
\* inserts the URL's pattern into high_value_url_patterns unless present
\* and appends {url, pattern, relevance} to the bucket of the page type;
\* with relevance < 6 it leaves the three unchanged.
C23_UpdateSiteKnowledge ==
    fn_call.op = "update_site_knowledge" =>
        LET b == fn_call.before
            a == fn_result
            url == fn_call.url
            p == extract_url_pattern(url)
            old == b.su.high_value_url_patterns
        IN  /\ a.prs[url] = fn_call.relevance
            /\ \A u \in Urls \ {url} : a.prs[u] = b.prs[u]
            /\ IF fn_call.relevance >= 6
               THEN /\ a.hvp = Append(b.hvp, url)
                    /\ a.su.high_value_url_patterns
                         = (IF p \in Range(old) THEN old ELSE Append(old, p))
                    /\ a.su.content_patterns
                         = [b.su.content_patterns
                              EXCEPT ![fn_call.page_type] =
                                Append(@, [url |-> url, pattern |-> p,
                                           relevance |-> fn_call.relevance])]
               ELSE /\ a.hvp = b.hvp
                    /\ a.su = b.su

\* the low-value keywords, as a set
LowValueWords ==
    {"privacy", "policy", "terms", "cookie", "login", "signin", "signup",
     "register", "cart", "checkout", "account", "subscribe", "newsletter"}

ScoreLinkCalled == fn_call.op = "score_link_relevance_heuristic"

\* the words of anchor text, context and URL path of the scored link
ScoredWords == fn_call.link.anchor_text \cup UrlPathWords(fn_call.link.url)

\* the number of low-value keywords the scored link matches
LowValueHits == Cardinality(LowValueWords \cap ScoredWords)

\* the boosts of the scored link, in half units
ScoreBoosts ==
    LET text == fn_call.link.anchor_text
        path == UrlPathWords(fn_call.link.url)
        kw == {i \in 1..Len(CrawlObjectiveWords) : CrawlObjectiveWords[i].len > 3}
        dt == fn_call.data_types
        sp == fn_call.analysis.url_patterns_to_seek
    IN  (IF fn_call.link.is_main_content THEN 4 ELSE 0)
        + (IF fn_call.link.is_prominent THEN 3 ELSE 0)
        + 4 * Cardinality({i \in kw : CrawlObjectiveWords[i].w \in text})
        + 3 * Cardinality({i \in kw : CrawlObjectiveWords[i].w \in path})
        + 4 * Cardinality({i \in 1..Len(dt) : dt[i] \in text \cup path})
        + 6 * Cardinality({i \in 1..Len(sp) : sp[i] \in text \cup path})

\* base 5 with every penalty and boost, in half units, before the clamp
ScoreSum ==
    10 - 6 * LowValueHits + ScoreBoosts
       - (IF fn_call.link.is_navigation THEN 2 ELSE 0)

\* C24: _score_link_relevance_heuristic returns the sum of the base 5 and
\* all penalties and boosts, clamped to 0 from below and to 10 from above
\* (0 and 20 in half units).
C24_ScoreClamped ==
    ScoreLinkCalled =>
        /\ fn_result \in 0..20
        /\ fn_result = (IF ScoreSum < 0 THEN 0
                        ELSE IF ScoreSum > 20 THEN 20 ELSE ScoreSum)

\* a link whose boosts carry the sum above 10 was scored 10
C24_Witness == ScoreLinkCalled /\ ScoreSum > 20 /\ fn_result = 20

\* a scored link without boost that matches at least one low-value keyword
PenalisedOnly == ScoreLinkCalled /\ ScoreBoosts = 0 /\ LowValueHits >= 1

\* the link "Login to your account" to /account/login
LoginLink ==
    /\ ScoreLinkCalled
    /\ fn_call.link.url = 5
    /\ fn_call.link.anchor_text = {"login", "account"}

\* C27 as stated: a link without boost that matches k >= 1 low-value
\* keywords scores max(0, 5 - 3k) (10 - 6k in half units).
C27_KeywordPenaltyOnly ==
    PenalisedOnly => fn_result = Max2(0, 10 - 6 * LowValueHits)

\* C27 as the code has it: such a link scores max(0, 5 - 3k) outside
\* nav/header and max(0, 4 - 3k) inside, where the navigation penalty of 1
\* applies as well; the link "Login to your account" to /account/login
\* without boost scores at most 2.
C27_KeywordAndNavigationPenalty ==
    PenalisedOnly =>
        /\ fn_result = Max2(0, 10 - 6 * LowValueHits
                               - (IF fn_call.link.is_navigation THEN 2 ELSE 0))
        /\ LoginLink => LowValueHits = 2 /\ fn_result <= 4

\* the login link was scored without boost, and its two penalties took the
\* score to 0
C27_Witness == PenalisedOnly /\ LoginLink /\ fn_result = 0

\* C25: the heuristic score of the deep-crawl pre-filter (base 5, +2
\* pattern bonus, +1 main content, +1 prominent, +2 seek pattern) lies in
\* [0,10].
C25_PreFilterScoreInRange ==
    fn_call.op = "score_url_relevance" => fn_result.relevance_score \in 0..10

\* C26: every record _crawl_page returns for the visited-pages log has a
\* relevance_score in [0,10], whatever relevance the Oracle gave the page or
\* its sections.
C26_RecordRelevanceInRange ==
    fn_call.op = "crawl_page" =>
        \A i \in 1..Len(fn_result) : fn_result[i].relevance_score \in 0..10

SelectCalled == fn_call.op = "select_best_links_for_recon"

\* the heuristic score of a link under the analysis and data types of the
\* selection call, in half units
SelectScore(link) ==
    score_link_relevance_heuristic(link, fn_call.analysis, fn_call.data_types)

\* the positions of a link list whose links have the pattern p
WithPattern(links, p) ==
    {i \in 1..Len(links) : extract_url_pattern(links[i].url) = p}

\* C28: _select_best_links_for_recon returns at most count links, at most 2
\* links of one generalized URL pattern, and no link with a heuristic score
\* below 3 (6 half units); every returned link is one of the input.
C28_SelectionLimits ==
    SelectCalled =>
        /\ Len(fn_result) <= fn_call.count
        /\ \A i \in 1..Len(fn_result) :
              /\ Cardinality(WithPattern(fn_result,
                      extract_url_pattern(fn_result[i].url))) <= 2
              /\ SelectScore(fn_result[i]) >= 6
              /\ fn_result[i] \in Range(fn_call.links)

\* a selection from a list with a link scored below 3 and three or more
\* acceptable links of one pattern, two of which were taken
C28_Witness ==
    /\ SelectCalled
    /\ \E i \in 1..Len(fn_call.links) : SelectScore(fn_call.links[i]) < 6
    /\ \E i \in 1..Len(fn_call.links) :
          LET p == extract_url_pattern(fn_call.links[i].url)
          IN  /\ Cardinality({j \in WithPattern(fn_call.links, p) :
                                SelectScore(fn_call.links[j]) >= 6}) >= 3
              /\ Cardinality(WithPattern(fn_result, p)) = 2
    /\ Len(fn_result) > 2

PatternCalled == fn_call.op = "extract_url_pattern"

\* C29: the pattern of a URL is determined by its path alone: it has one
\* part per path segment, "*" exactly for the segments that are all digits
\* or longer than 30 characters and the segment itself otherwise; deriving
\* the pattern of a derived pattern returns it unchanged.
C29_PatternOfPath ==
    PatternCalled =>
        LET path_parts == UrlPathParts(fn_call.url)
        IN  /\ Len(fn_result.pattern) = Len(path_parts)
            /\ \A i \in 1..Len(path_parts) :
                  /\ (path_parts[i].isdigit \/ path_parts[i].len > 30)
                        => fn_result.pattern[i] = "*"
                  /\ ~(path_parts[i].isdigit \/ path_parts[i].len > 30)
                        => fn_result.pattern[i] = path_parts[i].text
            /\ fn_result.again = fn_result.pattern

\* the pattern of the URL with a 31-character, a 30-character and a numeric
\* segment was derived, and derived again from the pattern
C29_Witness ==
    /\ PatternCalled
    /\ fn_call.url = 9
    /\ fn_result.pattern
         = << "files", "*", "abcdefghijklmnopqrstuvwxyz0123", "*" >>
    /\ fn_result.again = fn_result.pattern

RECURSIVE RecordsInOrder(_, _)
\* the page_data records of the tasks ts, taken in the order of the task
\* indices in the sequence order
RecordsInOrder(ts, order) ==
    IF order = << >> THEN << >>
    ELSE ts[Head(order)].result \o RecordsInOrder(ts, Tail(order))

\* C30: the records a batch hands over for the visited-pages log (appended
\* to it one by one, in this order) are in the order in which their tasks
\* completed, not in the order in which the URLs were dispatched.
C30_LogInCompletionOrder ==
    fn_call.op = "crawl_pages_batch" =>
        fn_result = RecordsInOrder(fn_call.tasks, fn_call.completion)

\* C31: with a concurrency in 1..10, never more than concurrency tasks
\* (page tasks of a batch, or link-extraction tasks of the seeding) are in
\* flight at once, and a new batch is created only when no task of the
\* current one is in flight.
C31_InFlightWithinConcurrency ==
    ValidConfiguration => Cardinality(InFlight) <= concurrency

\* C32: every Oracle call is bounded by a timeout: a call the Oracle never
\* answers ends as a call failure (an exception at the call site, which
\* applies its fallback), it does not stay pending.
C32_SilentCallFails ==
    (fn_call.op = "async_ollama_generate" /\ fn_call.behaviour = "silent")
        => fn_result = "raised"

\* the integer tokens of the navigation answer that are indices of a
\* candidate, in the order of the answer
InRangeNumbers ==
    SelectSeq(answer_numbers(fn_call.outcome.answer),
              LAMBDA n : 1 <= n /\ n <= NumCandidates)

\* C33: out-of-range indices are dropped before the cap of 5: the selection
\* is the candidates at the first five in-range indices of the answer (with
\* 12 candidates, "99,98,97,96,95,1" selects candidate 1).
C33_DropBeforeCap ==
    (/\ NavigationAnswered
     /\ fn_call.available_links # << >>
     /\ \A i \in 1..Len(fn_call.outcome.answer) :
           ~fn_call.outcome.answer[i].has_none)
        => fn_result = [k \in 1..Min2(5, Len(InRangeNumbers)) |->
                           CandidateUrl(InRangeNumbers[k])]

SeedCalled == fn_call.op = "seed_queue"

\* the logged pages that seed the deep crawl under a threshold of 5: their
\* positions in scraped_data
SeedPages ==
    {i \in 1..Len(fn_call.scraped_data) :
        /\ fn_call.scraped_data[i].relevance_score >= 5
        /\ fn_call.scraped_data[i].url \notin fn_call.failing}

\* the first position of scraped_data whose page contributes the URL u
FirstSeen(u) ==
    CHOOSE i \in SeedPages :
        /\ u \in Range(seed_links(fn_call.file, fn_call.scraped_data[i].url,
                                   fn_call.visited))
        /\ \A j \in SeedPages :
              u \in Range(seed_links(fn_call.file, fn_call.scraped_data[j].url,
                                     fn_call.visited)) => i <= j

\* C34: the deep-crawl frontier is rebuilt from the links re-extracted from
\* exactly the logged pages of relevance >= 5 (pages below 5 and the URLs
\* left in the reconnaissance frontier contribute nothing); it has no
\* duplicates, no visited URL, and keeps first-seen order.
C34_SeedFromRelevantPages ==
    SeedCalled =>
        /\ Range(fn_result)
             = UNION { Range(seed_links(fn_call.file,
                                        fn_call.scraped_data[i].url,
                                        fn_call.visited)) : i \in SeedPages }
        /\ NoDuplicates(fn_result)
        /\ Range(fn_result) \cap fn_call.visited = {}
        /\ \A a, b \in 1..Len(fn_result) :
              a < b => FirstSeen(fn_result[a]) <= FirstSeen(fn_result[b])

\* the first position of u in the queue q
FirstPos(q, u) == CHOOSE i \in 1..Len(q) : q[i] = u /\ \A j \in 1..(i - 1) : q[j] # u

\* a step that enqueues: what was queued stays queued in its order, and
\* every new URL stands behind every URL that was queued before
AppendsAtEnd ==
    /\ Range(url_queue) \subseteq Range(url_queue')
    /\ \A a \in Range(url_queue) : \A b \in Range(url_queue') :
          IF b \in Range(url_queue)
          THEN FirstPos(url_queue, a) < FirstPos(url_queue, b)
                  => FirstPos(url_queue', a) < FirstPos(url_queue', b)
          ELSE FirstPos(url_queue', a) < FirstPos(url_queue', b)

\* a step of a loop head: some front part of the queue is taken off, and
\* the URLs dispatched are the unvisited URLs of that part
TakesFromFront ==
    \E k \in 0..Len(url_queue) :
        /\ url_queue' = SubSeq(url_queue, k + 1, Len(url_queue))
        /\ visited_urls' \ visited_urls
             = {url_queue[i] : i \in 1..k} \ visited_urls
        /\ tasks' # tasks
             => {tasks'[i].url : i \in 1..Len(tasks')}
                  = visited_urls' \ visited_urls

\* C35: the frontier is FIFO within each phase: URLs are appended at the
\* end and batches are taken from the front, so a URL enqueued before
\* another one of the phase is dispatched in the same batch or an earlier
\* one. (The queue is reset between the phases, at pc = "seed".)
C35_FrontierIsFifo ==
    [][/\ pc \in {"recon", "deep"} => TakesFromFront
       /\ pc \notin {"recon", "deep", "seed", "start"} => AppendsAtEnd]_vars

\* a deep-crawl batch was taken from a queue that held more URLs than the
\* batch; the later ones still wait
C35_Witness ==
    /\ pc = "deep_batch"
    /\ Len(tasks) >= 2
    /\ url_queue # << >>

\* C36: at Done, every page of the visited-pages log has an entry in the
\* per-URL relevance history, and the entry equals the relevance of the
\* page's log record; pages with the last-resort extraction included.
C36_LoggedPagesHaveRecordedRelevance ==
    (ValidConfiguration /\ pc = "done") =>
        \A i \in 1..Len(scraped_data) :
            /\ page_relevance_scores[scraped_data[i].url] # NoScore
            /\ page_relevance_scores[scraped_data[i].url]
                 = scraped_data[i].relevance_score

\* C37: in one run the Fetcher is called at most once per URL (a page
\* fetched by its task is not fetched again for link extraction or for
\* seeding), so the number of Fetcher calls is at most the number of
\* visited URLs.
C37_OneFetchPerUrl ==
    ValidConfiguration =>
        /\ \A u \in Urls : fetch_calls[u] <= 1
        /\ SumOver(fetch_calls, Cardinality(Urls))
             <= Cardinality(visited_urls)

DeepPageCalled == fn_call.op = "deep_page"

\* the URLs of the links extracted from the processed page itself
OwnLinkUrls == LinkUrls(deep_page_links(fn_call.page, fn_call.visited))

\* C38: in the deep crawl the links offered to navigation selection for a
\* page, and the URLs enqueued after it, come from the links extracted from
\* that page in that iteration; when the follow-up fetch fails no link list
\* is offered and the queue stays as it was.
C38_LinksOfSamePageOnly ==
    DeepPageCalled =>
        /\ Range(fn_result.offered) \subseteq Range(OwnLinkUrls)
        /\ Range(fn_result.url_queue) \ Range(fn_call.url_queue)
              \subseteq Range(OwnLinkUrls)
        /\ ~fn_call.success =>
              /\ fn_result.offered = << >>
              /\ fn_result.url_queue = fn_call.url_queue

\* no pattern and no high-value URL is recorded twice in the crawl
NoDuplicateKnowledgeInCrawl ==
    /\ NoDuplicates(site_understanding.high_value_url_patterns)
    /\ NoDuplicates(high_value_pages)

ExtractionCalled == fn_call.op = "extraction"

\* C39: high_value_url_patterns never holds a pattern twice and
\* high_value_pages never holds a URL twice: the extraction of a page, run
\* on knowledge without duplicates that does not hold the page, leaves
\* knowledge without duplicates.
C39_NoDuplicateKnowledge ==
    (/\ ExtractionCalled
     /\ fn_call.url \notin Range(fn_call.before.hvp)) =>
        /\ NoDuplicates(fn_result.su.high_value_url_patterns)
        /\ NoDuplicates(fn_result.hvp)

\* the URLs the iteration that starts in the current state marks visited
NewlyVisited(batch_size, budget) ==
    LET popped == PopBatch(url_queue, visited_urls,
                           current_batch_size(batch_size, budget))
    IN  Range(DispatchUrls(popped.batch, visited_urls)) \ visited_urls

AtReconIteration ==
    pc = "recon" /\ url_queue # << >>
                 /\ Cardinality(visited_urls) < recon_budget

AtDeepIteration ==
    pc = "deep" /\ url_queue # << >>
                /\ Cardinality(visited_urls) < max_pages

\* C40: every iteration of the reconnaissance loop and of the deep-crawl
\* loop marks at least one new URL visited, for every concurrency >= 0.
C40_IterationMarksNewUrl ==
    /\ AtReconIteration => NewlyVisited(recon_batch_size, recon_budget) # {}
    /\ AtDeepIteration => NewlyVisited(deep_batch_size, max_pages) # {}
====
